---- MODULE Spec2Model ----
(***************************************************************************)
(* Reconciliation store and idempotent ledger sync of amazon-ynab-sync.    *)
(*                                                                         *)
(* State: the persisted store (transactions.json), the external ledger     *)
(* (YNAB) with the entries it has created, and a record of the last sync   *)
(* run.  Operations: the scrape/merge run (transactions-to-json.ts main),  *)
(* the ledger sync run (ynab-sync.ts), and the operator's delete and       *)
(* reset handlers (server.ts).                                             *)
(***************************************************************************)
EXTENDS Integers, Sequences, FiniteSets, TLC

(***************************************************************************)
(* JavaScript values.  null and undefined are told apart where the code    *)
(* does (t.x !== undefined versus t.x ?? y).                               *)
(***************************************************************************)
NULL == "<null>"
UNDEFINED == "<undefined>"

Nullish(v) == v = NULL \/ v = UNDEFINED

\* a ?? b
Coalesce(a, b) == IF Nullish(a) THEN b ELSE a

(***************************************************************************)
(* String helpers: strings are sequences of characters.                    *)
(***************************************************************************)
CharAt(s, i) == SubSeq(s, i, i)

Digits == {"0", "1", "2", "3", "4", "5", "6", "7", "8", "9"}

DigitValue(c) ==
  CASE c = "0" -> 0 [] c = "1" -> 1 [] c = "2" -> 2 [] c = "3" -> 3
    [] c = "4" -> 4 [] c = "5" -> 5 [] c = "6" -> 6 [] c = "7" -> 7
    [] c = "8" -> 8 [] c = "9" -> 9

Whitespace == {" "}

\* String.prototype.includes for a one-character needle
IncludesChar(s, c) == \E i \in 1..Len(s) : CharAt(s, i) = c

\* String.prototype.includes
Includes(s, sub) ==
  \E i \in 1..(Len(s) - Len(sub) + 1) : SubSeq(s, i, i + Len(sub) - 1) = sub

\* String.prototype.endsWith
EndsWith(s, suffix) ==
  Len(s) >= Len(suffix) /\ SubSeq(s, Len(s) - Len(suffix) + 1, Len(s)) = suffix

\* String.prototype.startsWith
StartsWith(s, prefix) ==
  Len(s) >= Len(prefix) /\ SubSeq(s, 1, Len(prefix)) = prefix

\* String.prototype.lastIndexOf for a one-character needle, 1-based, 0 if absent
LastIndexOf(s, c) ==
  IF IncludesChar(s, c)
  THEN CHOOSE i \in 1..Len(s) :
         CharAt(s, i) = c /\ \A j \in (i + 1)..Len(s) : CharAt(s, j) # c
  ELSE 0

\* first index of a one-character needle, 1-based, 0 if absent
IndexOf(s, c) ==
  IF IncludesChar(s, c)
  THEN CHOOSE i \in 1..Len(s) :
         CharAt(s, i) = c /\ \A j \in 1..(i - 1) : CharAt(s, j) # c
  ELSE 0

\* s.replace(/[^keep]/g, "")
RECURSIVE KeepChars(_, _)
KeepChars(s, keep) ==
  IF Len(s) = 0 THEN ""
  ELSE (IF CharAt(s, 1) \in keep THEN CharAt(s, 1) ELSE "")
       \o KeepChars(SubSeq(s, 2, Len(s)), keep)

\* s.replace(/c/g, "")
RECURSIVE RemoveAll(_, _)
RemoveAll(s, c) ==
  IF Len(s) = 0 THEN ""
  ELSE (IF CharAt(s, 1) = c THEN "" ELSE CharAt(s, 1))
       \o RemoveAll(SubSeq(s, 2, Len(s)), c)

\* s.replace(c, d): the first occurrence only
ReplaceFirst(s, c, d) ==
  LET i == IndexOf(s, c)
  IN IF i = 0 THEN s ELSE SubSeq(s, 1, i - 1) \o d \o SubSeq(s, i + 1, Len(s))

\* the end of the longest run of characters of class cls that starts at i
\* (i - 1 when there is none)
RECURSIVE RunEnd(_, _, _)
RunEnd(s, i, cls) ==
  IF i <= Len(s) /\ CharAt(s, i) \in cls THEN RunEnd(s, i + 1, cls) ELSE i - 1

\* the value of a string of decimal digits
RECURSIVE DigitsToInt(_)
DigitsToInt(s) ==
  IF Len(s) = 0 THEN 0
  ELSE 10 * DigitsToInt(SubSeq(s, 1, Len(s) - 1)) + DigitValue(CharAt(s, Len(s)))

RECURSIVE Pow10(_)
Pow10(k) == IF k = 0 THEN 1 ELSE 10 * Pow10(k - 1)

\* String.prototype.trim
RECURSIVE Trim(_)
Trim(s) ==
  IF Len(s) = 0 THEN s
  ELSE IF CharAt(s, 1) \in Whitespace THEN Trim(SubSeq(s, 2, Len(s)))
  ELSE IF CharAt(s, Len(s)) \in Whitespace THEN Trim(SubSeq(s, 1, Len(s) - 1))
  ELSE s

\* String.prototype.padStart(n, "0")
RECURSIVE PadStart0(_, _)
PadStart0(s, n) == IF Len(s) >= n THEN s ELSE PadStart0("0" \o s, n)

\* (s.replace(sub, rep)): the first occurrence of a substring only
ReplaceFirstSub(s, sub, rep) ==
  IF Includes(s, sub)
  THEN LET i == CHOOSE j \in 1..(Len(s) - Len(sub) + 1) :
                  /\ SubSeq(s, j, j + Len(sub) - 1) = sub
                  /\ \A h \in 1..(j - 1) : SubSeq(s, h, h + Len(sub) - 1) # sub
       IN SubSeq(s, 1, i - 1) \o rep \o SubSeq(s, i + Len(sub), Len(s))
  ELSE s

UpperChars == "ABCDEFGHIJKLMNOPQRSTUVWXYZÄÖÜ"
LowerChars == "abcdefghijklmnopqrstuvwxyzäöü"

\* the lower-case letter of each upper-case letter
LowerOf ==
  [c \in {CharAt(UpperChars, i) : i \in 1..Len(UpperChars)} |->
     CharAt(LowerChars, CHOOSE i \in 1..Len(UpperChars) : CharAt(UpperChars, i) = c)]

LowerChar(c) == IF c \in DOMAIN LowerOf THEN LowerOf[c] ELSE c

\* String.prototype.toLowerCase
RECURSIVE ToLowerCase(_)
ToLowerCase(s) ==
  IF Len(s) = 0 THEN ""
  ELSE LowerChar(CharAt(s, 1)) \o ToLowerCase(SubSeq(s, 2, Len(s)))

\* s.normalize("NFD").replace(/\p{Diacritic}/gu, ""): the umlauts lose their dots
StripDiacritic(c) ==
  CASE c = "ä" -> "a" [] c = "ö" -> "o" [] c = "ü" -> "u"
    [] c = "Ä" -> "A" [] c = "Ö" -> "O" [] c = "Ü" -> "U"
    [] OTHER -> c

RECURSIVE StripDiacritics(_)
StripDiacritics(s) ==
  IF Len(s) = 0 THEN ""
  ELSE StripDiacritic(CharAt(s, 1)) \o StripDiacritics(SubSeq(s, 2, Len(s)))

(***************************************************************************)
(* Locale parser of the ledger sync (ynab-sync.ts).                        *)
(***************************************************************************)
\* deMonths[key], NULL (undefined) for a key it does not hold
deMonths(key) ==
  CASE key = "januar" -> "01" [] key = "februar" -> "02" [] key = "märz" -> "03"
    [] key = "maerz" -> "03" [] key = "april" -> "04" [] key = "mai" -> "05"
    [] key = "juni" -> "06" [] key = "juli" -> "07" [] key = "august" -> "08"
    [] key = "september" -> "09" [] key = "oktober" -> "10"
    [] key = "november" -> "11" [] key = "dezember" -> "12"
    [] OTHER -> NULL

\* the character class [a-zäöüß] of the date pattern
DateLetters ==
  {CharAt(LowerChars, i) : i \in 1..Len(LowerChars)} \cup {"ß"}

\* d.trim().toLowerCase().match(/^(\d{1,2})\.\s*([a-zäöüß]+)\s+(\d{4})$/i):
\* the three groups, or NULL when the text does not match
GermanDateMatch(d) ==
  LET s      == ToLowerCase(Trim(d))
      dayEnd == RunEnd(s, 1, Digits)
      ws1End == RunEnd(s, dayEnd + 2, Whitespace)
      monEnd == RunEnd(s, ws1End + 1, DateLetters)
      ws2End == RunEnd(s, monEnd + 1, Whitespace)
      yrEnd  == RunEnd(s, ws2End + 1, Digits)
  IN IF /\ dayEnd \in {1, 2}
        /\ dayEnd + 1 <= Len(s) /\ CharAt(s, dayEnd + 1) = "."
        /\ monEnd >= ws1End + 1
        /\ ws2End >= monEnd + 1
        /\ yrEnd = ws2End + 4
        /\ yrEnd = Len(s)
     THEN <<SubSeq(s, 1, dayEnd), SubSeq(s, ws1End + 1, monEnd),
            SubSeq(s, ws2End + 1, yrEnd)>>
     ELSE NULL

\* deMonths[monKey] || deMonths[m[2]]
MonthOfMatch(monKey, name) ==
  IF deMonths(monKey) # NULL THEN deMonths(monKey) ELSE deMonths(name)

\* `${year}-${month}-${day}`, null without a month
IsoDateOfParts(year, month, day) ==
  IF month = NULL THEN NULL ELSE year \o "-" \o month \o "-" \o day

\* the date of the groups m of the date pattern, null without a match
IsoDateOfMatch(m) ==
  IF m = NULL THEN NULL
  ELSE IsoDateOfParts(
         m[3],
         MonthOfMatch(ReplaceFirstSub(StripDiacritics(m[2]), "marz", "maerz"), m[2]),
         PadStart0(m[1], 2))

parseGermanDateToISO(d) == IsoDateOfMatch(GermanDateMatch(d))

\* parseFloat on the cleaned amount: an optional sign, digits, an optional
\* "." and digits; the longest such prefix. nan when it holds no digit.
ParseFloat(str) ==
  LET signLen == IF Len(str) > 0 /\ CharAt(str, 1) \in {"-", "+"} THEN 1 ELSE 0
      intEnd  == RunEnd(str, signLen + 1, Digits)
      hasDot  == intEnd + 1 <= Len(str) /\ CharAt(str, intEnd + 1) = "."
      fracEnd == IF hasDot THEN RunEnd(str, intEnd + 2, Digits) ELSE intEnd
      intDigits  == SubSeq(str, signLen + 1, intEnd)
      fracDigits == IF hasDot THEN SubSeq(str, intEnd + 2, fracEnd) ELSE ""
  IN [nan  |-> Len(intDigits) + Len(fracDigits) = 0,
      neg  |-> signLen = 1 /\ CharAt(str, 1) = "-",
      num  |-> DigitsToInt(intDigits \o fracDigits),
      den  |-> Pow10(Len(fracDigits))]

\* the text handed to parseFloat, by the separators the cleaned amount holds
AmountNumericText(amountStr) ==
  LET cleanAmount == KeepChars(amountStr, Digits \cup {",", ".", "-"})
      hasComma    == IncludesChar(cleanAmount, ",")
      hasDot      == IncludesChar(cleanAmount, ".")
  IN IF hasComma /\ ~hasDot THEN ReplaceFirst(cleanAmount, ",", ".")
     ELSE IF hasDot /\ ~hasComma THEN cleanAmount
     ELSE IF hasComma /\ hasDot
     THEN IF LastIndexOf(cleanAmount, ",") > LastIndexOf(cleanAmount, ".")
          THEN ReplaceFirst(RemoveAll(cleanAmount, "."), ",", ".")
          ELSE RemoveAll(cleanAmount, ",")
     ELSE cleanAmount

\* amountToMilliunits yields NaN for this text
amountIsNaN(amountStr) == ParseFloat(AmountNumericText(amountStr)).nan

\* Math.round(sign * numeric * 1000); Math.round rounds halves up
RoundedMilliunits(sign, f) ==
  (2 * (sign * (IF f.neg THEN -1 ELSE 1) * f.num * 1000) + f.den) \div (2 * f.den)

amountToMilliunits(amountStr, isRefundFlag) ==
  RoundedMilliunits(IF IncludesChar(amountStr, "+") \/ isRefundFlag THEN 1 ELSE -1,
                    ParseFloat(AmountNumericText(amountStr)))

(***************************************************************************)
(* The texts the pages of the model show, and the two conversions          *)
(* tabulated over them (each entry computed by the conversion itself).     *)
(***************************************************************************)
OrderX == "304-1111111-2222222"
OrderY == "304-3333333-4444444"
OrderZ == "304-5555555-6666666"

DateOne == "17. September 2025"
DateTwo == "01. Januar 2025"

\* The currency sign of the amounts.  The pages show the euro sign (U+20AC);
\* the texts of the model are ASCII, because TLC keeps the low byte of a
\* character in the states it writes to disk, and have one ASCII sign in its
\* place.  The code never looks for the sign itself: it removes every
\* character that is no digit, comma, dot or minus.
CurrencySign == "$"

AmountOne == "-" \o CurrencySign \o "4,99"
AmountTwo == "-" \o CurrencySign \o "39,98"
AmountPoints == "+" \o CurrencySign \o "0,50"

IsoDateTable == [d \in {DateOne, DateTwo} |-> parseGermanDateToISO(d)]

MilliunitsTable ==
  [a \in {AmountOne, AmountTwo, AmountPoints}, r \in BOOLEAN |->
     [nan |-> amountIsNaN(a), milli |-> amountToMilliunits(a, r)]]

\* parseGermanDateToISO(d), read from the table
IsoDate(d) == IsoDateTable[d]

\* amountToMilliunits(a, r) and whether it is NaN, read from the table
Milliunits(a, r) == MilliunitsTable[a, r]

(***************************************************************************)
(* Nullable lists and objects: <<>> is null, <<v>> holds the value v.      *)
(***************************************************************************)
None == <<>>
Some(v) == <<v>>
IsNone(o) == o = <<>>
Get(o) == o[1]
\* such a field left out of the object (undefined)
Undef == <<<<>>, <<>>>>
IsSome(o) == Len(o) = 1
\* a ?? b on nullable lists and objects
CoalesceOpt(a, b) == IF IsSome(a) THEN a ELSE b

\* Array.prototype.filter
Filter(seq, Keep(_)) == SelectSeq(seq, Keep)

\* Array.from(new Set(seq)): the first occurrence of each element, in order
RECURSIVE Dedupe(_)
Dedupe(seq) ==
  IF seq = <<>> THEN <<>>
  ELSE LET init == Dedupe(SubSeq(seq, 1, Len(seq) - 1))
           last == seq[Len(seq)]
       IN IF \E i \in 1..Len(init) : init[i] = last THEN init ELSE Append(init, last)

\* Array.prototype.join
RECURSIVE Join(_, _)
Join(parts, sep) ==
  IF parts = <<>> THEN ""
  ELSE IF Len(parts) = 1 THEN parts[1]
  ELSE parts[1] \o sep \o Join(Tail(parts), sep)

(***************************************************************************)
(* Transaction records (transactions-to-json.ts, type Transaction, with    *)
(* the sync fields ynab-sync.ts adds).  A field the code leaves out of the *)
(* object is UNDEFINED; multiOrderTransaction and ynabSynced are read for  *)
(* truth only, so a missing one is FALSE; a missing totalOrders is 0 and   *)
(* a missing orderIndex is negative.                                       *)
(***************************************************************************)
NoYnabSync ==
  [importId |-> NULL, ynabTransactionId |-> NULL,
   duplicateImportId |-> FALSE, amountMilliunits |-> 0]

\* according to the regular expression class \w
WordChars ==
  {CharAt(LowerChars, i) : i \in 1..26} \cup {CharAt(UpperChars, i) : i \in 1..26}
    \cup Digits \cup {"_"}

\* /(^|\b)Anmelden\b|Amazon\s+Anmelden/i.test(s)
LoginPattern(s) ==
  LET l == ToLowerCase(s)
      At(i, w) == i >= 1 /\ i + Len(w) - 1 <= Len(l) /\ SubSeq(l, i, i + Len(w) - 1) = w
  IN \/ \E i \in 1..Len(l) :
          /\ At(i, "anmelden")
          /\ (i = 1 \/ CharAt(l, i - 1) \notin WordChars)
          /\ (i + 8 > Len(l) \/ CharAt(l, i + 8) \notin WordChars)
     \/ \E i \in 1..Len(l) :
          /\ At(i, "amazon")
          /\ RunEnd(l, i + 6, Whitespace) >= i + 6
          /\ At(RunEnd(l, i + 6, Whitespace) + 1, "anmelden")

\* /Anmelden/i.test(x)
AnmeldenPattern(x) == Includes(ToLowerCase(x), "anmelden")

\* the titles the order pages of the model show and the description made of
\* them, with the two patterns tabulated over them
TitleCable == "USB Kabel"
TitleLogin == "Amazon Anmelden"
TitleSignIn == "Anmelden"
PriceCable == CurrencySign \o "4,99"

PatternTable ==
  [s \in {TitleCable, TitleCable \o " ", TitleLogin, TitleSignIn,
          "1. " \o TitleCable, "1. " \o TitleCable \o " (" \o PriceCable \o ")"} |->
     [login |-> LoginPattern(s), anmelden |-> AnmeldenPattern(s)]]

\* the two patterns on a text, read from the table
PatternsOf(s) == PatternTable[s]

isLoginText(s) ==
  IF Nullish(s) \/ s = "" THEN FALSE ELSE PatternsOf(s).login

HasAnmelden(x) == PatternsOf(x).anmelden

TitleNotLogin(x) == ~HasAnmelden(x)
ItemNotLogin(item) == ~isLoginText(item[1])

\* Scrub login artefacts from a transaction's title fields
\* kept.length ? kept : null
NullIfEmpty(kept) == IF kept = <<>> THEN None ELSE Some(kept)

scrubLoginFields(t) ==
  [t EXCEPT !.orderDescription = IF isLoginText(@) THEN NULL ELSE @,
            !.orderTitles = IF ~IsSome(@) \/ Get(@) = <<>> THEN @
                            ELSE NullIfEmpty(Filter(Get(@), TitleNotLogin)),
            !.orderItems = IF ~IsSome(@) \/ Get(@) = <<>> THEN @
                           ELSE NullIfEmpty(Filter(Get(@), ItemNotLogin))]

\* the parts "1. title (price)" of the entries
NumberedParts(entries, Render(_)) ==
  [idx \in 1..Len(entries) |-> ToString(idx) \o ". " \o Render(entries[idx])]

MaxDescriptionItems == 5

RenderItem(item) ==
  item[1] \o (IF Nullish(item[2]) \/ item[2] = "" THEN "" ELSE " (" \o item[2] \o ")")
RenderTitle(title) == title

formatOrderDescription(items, titles) ==
  LET Parts(entries, Render(_)) ==
        NumberedParts(SubSeq(entries, 1,
                        IF Len(entries) < MaxDescriptionItems THEN Len(entries)
                        ELSE MaxDescriptionItems), Render)
          \o (IF Len(entries) > MaxDescriptionItems
              THEN <<"+" \o ToString(Len(entries) - MaxDescriptionItems) \o " weitere Artikel">>
              ELSE <<>>)
  IN IF IsSome(items) /\ Len(Get(items)) > 0
     THEN Join(Parts(Get(items), RenderItem), " | ")
     ELSE IF IsSome(titles) /\ Len(Get(titles)) > 0
     THEN Join(Parts(Get(titles), RenderTitle), " | ")
     ELSE NULL

(***************************************************************************)
(* Transaction normalizer (transactions-to-json.ts, extractTransactions).  *)
(* A raw block is one transaction link as the scraper's regular            *)
(* expressions see it: the order numbers after "Bestellnummer", the date,  *)
(* the amount and the payment instrument it matched (NULL: no match), and  *)
(* whether the text holds "Erstattet".                                     *)
(***************************************************************************)
\* m[1].replace(/-+$/, '')
RECURSIVE StripTrailingDashes(_)
StripTrailingDashes(s) ==
  IF Len(s) > 0 /\ CharAt(s, Len(s)) = "-"
  THEN StripTrailingDashes(SubSeq(s, 1, Len(s) - 1))
  ELSE s

\* the transaction object of order j of a block
\* variant: the first record of a block with several order numbers carries
\* the amount of the block
BlockTransactionFirstPriced(block, j) ==
  LET orderIds == [k \in 1..Len(block.orderIdMatches) |->
                     StripTrailingDashes(block.orderIdMatches[k])]
      hasMultipleOrders == Len(orderIds) > 1
  IN [date |-> block.date,
      amount |-> IF hasMultipleOrders /\ j > 1 THEN NULL ELSE block.amount,
      paymentInstrument |-> block.paymentInstrument,
      orderId |-> orderIds[j],
      isRefund |-> block.erstattet \/ (block.amount # NULL /\ StartsWith(block.amount, "+")),
      orderDescription |-> NULL,
      orderTitles |-> Undef,
      orderItems |-> None,
      orderSummary |-> Undef,
      aiSummary |-> UNDEFINED,
      multiOrderTransaction |-> hasMultipleOrders,
      totalAmount |-> IF hasMultipleOrders THEN block.amount ELSE UNDEFINED,
      orderIndex |-> IF hasMultipleOrders THEN j - 1 ELSE -1,
      totalOrders |-> IF hasMultipleOrders THEN Len(orderIds) ELSE 0,
      ynabSynced |-> FALSE,
      ynabSync |-> NoYnabSync]

BlockTransaction(block, j) ==
  LET orderIds == [k \in 1..Len(block.orderIdMatches) |->
                     StripTrailingDashes(block.orderIdMatches[k])]
      hasMultipleOrders == Len(orderIds) > 1
  IN [date |-> block.date,
      amount |-> IF hasMultipleOrders THEN NULL ELSE block.amount,
      paymentInstrument |-> block.paymentInstrument,
      orderId |-> orderIds[j],
      isRefund |-> block.erstattet \/ (block.amount # NULL /\ StartsWith(block.amount, "+")),
      orderDescription |-> NULL,
      orderTitles |-> Undef,
      orderItems |-> None,
      orderSummary |-> Undef,
      aiSummary |-> UNDEFINED,
      multiOrderTransaction |-> hasMultipleOrders,
      totalAmount |-> IF hasMultipleOrders THEN block.amount ELSE UNDEFINED,
      orderIndex |-> IF hasMultipleOrders THEN j - 1 ELSE -1,
      totalOrders |-> IF hasMultipleOrders THEN Len(orderIds) ELSE 0,
      ynabSynced |-> FALSE,
      ynabSync |-> NoYnabSync]

\* the transaction objects of one block: one per order number, none when
\* the block has no order number or neither date nor amount
BlockTransactions(block) ==
  IF Len(block.orderIdMatches) = 0 \/ (block.date = NULL /\ block.amount = NULL)
  THEN <<>>
  ELSE [j \in 1..Len(block.orderIdMatches) |-> BlockTransaction(block, j)]

RECURSIVE AllBlockTransactions(_)
AllBlockTransactions(blocks) ==
  IF blocks = <<>> THEN <<>>
  ELSE BlockTransactions(Head(blocks)) \o AllBlockTransactions(Tail(blocks))

NotPunkte(t) ==
  t.paymentInstrument # "Amazon Punkte Punkte" /\ t.paymentInstrument # "Santander-Punkte"

MinInt(a, b) == IF a < b THEN a ELSE b
MaxInt(a, b) == IF a > b THEN a ELSE b

\* the scrape mode 'last-n' (the modes that filter by date take a clock)
applySyncFilters(transactions, options) ==
  SubSeq(transactions, 1, MinInt(Len(transactions), MaxInt(options.lastCount, 1)))

extractTransactions(blocks, options) ==
  applySyncFilters(Filter(AllBlockTransactions(blocks), NotPunkte), options)

(***************************************************************************)
(* Step 2 of main: the order details of each order id are fetched once and *)
(* written to every transaction of that order.  detailOf[orderId] is what  *)
(* fetchOrderTitles returned (None, or titles, items and summary) and      *)
(* summaryOf[orderId] what generateSummary returned (a text or NULL).      *)
(***************************************************************************)
TrimItem(item) == <<Trim(item[1]), item[2]>>

\* detail?.titles ?? null, detail?.items ?? null, detail?.summary ?? null
DetailField(detail, field) == IF IsNone(detail) THEN None ELSE Get(detail)[field]

\* cleanedTitles, deduplicated
dedupedTitlesOf(rawTitles) ==
  IF IsSome(rawTitles)
  THEN Some(Dedupe(Filter(Get(rawTitles), TitleNotLogin))) ELSE None

cleanedItemsOf(rawItems) ==
  IF IsSome(rawItems)
  THEN Some(Filter([k \in 1..Len(Get(rawItems)) |-> TrimItem(Get(rawItems)[k])],
                   ItemNotLogin))
  ELSE None

\* the fields written to a transaction of the order; the summary text is
\* written only when there is a description
EnrichFormatted(r, cleanedItems, dedupedTitles, orderSummary, formattedDescription, aiText) ==
  [scrubLoginFields([r EXCEPT !.orderItems = cleanedItems,
                              !.orderTitles = dedupedTitles,
                              !.orderDescription = formattedDescription,
                              !.orderSummary = orderSummary])
     EXCEPT !.aiSummary = IF formattedDescription # NULL THEN aiText ELSE @]

EnrichCleaned(r, cleanedItems, dedupedTitles, orderSummary, aiText) ==
  EnrichFormatted(r, cleanedItems, dedupedTitles, orderSummary,
                  formatOrderDescription(cleanedItems, dedupedTitles), aiText)

EnrichTransaction(r, detail, aiText) ==
  EnrichCleaned(r, cleanedItemsOf(DetailField(detail, "items")),
                dedupedTitlesOf(DetailField(detail, "titles")),
                DetailField(detail, "summary"), aiText)

EnrichTransactions(transactions, detailOf, summaryOf) ==
  [k \in 1..Len(transactions) |->
     IF transactions[k].orderId = NULL \/ transactions[k].orderId = ""
     THEN transactions[k]
     ELSE EnrichTransaction(transactions[k], detailOf[transactions[k].orderId],
                            summaryOf[transactions[k].orderId])]

(***************************************************************************)
(* Step 3 of main: merge the fresh transactions into the persisted store.  *)
(***************************************************************************)
keyOf(t) ==
  Coalesce(t.orderId, "no-id")
    \o "|" \o Coalesce(t.amount, Coalesce(t.totalAmount, "no-amount"))
    \o "|" \o Coalesce(t.date, "no-date")
    \o (IF t.multiOrderTransaction /\ t.orderIndex >= 0
        THEN "|idx-" \o ToString(t.orderIndex) ELSE "")

Truthy(str) == ~Nullish(str) /\ str # ""

newMultiOrderIds(transactions) ==
  {transactions[k].orderId : k \in {h \in 1..Len(transactions) :
      transactions[h].multiOrderTransaction /\ Truthy(transactions[h].orderId)}}

\* the filter that builds existingArr
KeepExisting(t, multiIds) ==
  /\ ~(t.paymentInstrument = "Amazon Punkte Punkte" \/ t.paymentInstrument = "Santander-Punkte")
  /\ ~(Truthy(t.orderId) /\ EndsWith(t.orderId, "-"))
  /\ ~(Truthy(t.orderId) /\ ~t.multiOrderTransaction /\ t.orderId \in multiIds)

\* variant: the records read from the file are taken as they are
ScrubNone(kept) == kept

\* existingArr.map(scrubLoginFields)
ScrubAll(kept) == [k \in 1..Len(kept) |-> scrubLoginFields(kept[k])]

existingArrOf(existing, transactions) ==
  LET Keep(t) == KeepExisting(t, newMultiOrderIds(transactions))
  IN ScrubAll(Filter(existing, Keep))

\* variant: the fresh value is written without falling back on the old one
OverlayFresh(ex, t) ==
  scrubLoginFields(
    [ex EXCEPT
       !.orderTitles = IF t.orderTitles # Undef THEN CoalesceOpt(t.orderTitles, None) ELSE @,
       !.orderDescription = IF t.orderDescription # UNDEFINED
                            THEN Coalesce(t.orderDescription, NULL) ELSE @,
       !.orderItems = IF t.orderItems # Undef THEN CoalesceOpt(t.orderItems, None) ELSE @,
       !.orderSummary = IF t.orderSummary # Undef
                        THEN CoalesceOpt(t.orderSummary, None) ELSE @,
       !.aiSummary = IF t.aiSummary # UNDEFINED THEN Coalesce(t.aiSummary, NULL) ELSE @])

\* Prefer values from the current run if available
OverlayEnrichment(ex, t) ==
  scrubLoginFields(
    [ex EXCEPT
       !.orderTitles = IF t.orderTitles # Undef
                       THEN CoalesceOpt(t.orderTitles, CoalesceOpt(@, None)) ELSE @,
       !.orderDescription = IF t.orderDescription # UNDEFINED
                            THEN Coalesce(t.orderDescription, Coalesce(@, NULL)) ELSE @,
       !.orderItems = IF t.orderItems # Undef
                      THEN CoalesceOpt(t.orderItems, CoalesceOpt(@, None)) ELSE @,
       !.orderSummary = IF t.orderSummary # Undef
                        THEN CoalesceOpt(t.orderSummary, CoalesceOpt(@, None)) ELSE @,
       !.aiSummary = IF t.aiSummary # UNDEFINED
                     THEN Coalesce(t.aiSummary, Coalesce(@, NULL)) ELSE @])

\* variant: without existingByKey.set(k, t) for the new entries
LookupExistingOnly(existingArr, newOnes, k) ==
  LET hitsE == {h \in 1..Len(existingArr) : keyOf(existingArr[h]) = k}
  IN IF hitsE # {} THEN CHOOSE h \in hitsE : \A g \in hitsE : g <= h ELSE 0

\* existingByKey.get(k): the last existing entry with the key, else the new
\* entry set under it; 0 when the map has no such key.  Positions count the
\* existing entries first and the new ones after them.
LookupByKey(existingArr, newOnes, k) ==
  LET all  == existingArr \o newOnes
      hitsE == {h \in 1..Len(existingArr) : keyOf(existingArr[h]) = k}
      hitsN == {h \in 1..Len(newOnes) : keyOf(newOnes[h]) = k}
  IN IF hitsE # {} THEN CHOOSE h \in hitsE : \A g \in hitsE : g <= h
     ELSE IF hitsN # {} THEN Len(existingArr) + (CHOOSE h \in hitsN : \A g \in hitsN : h <= g)
     ELSE 0

\* one pass of the loop: the scrubbed fresh transaction t, found in the map
\* at position at, is overlaid on that entry, or appended when at is 0
MergeEntry(existingArr, newOnes, t, at) ==
  IF at = 0
  THEN [existingArr |-> existingArr, newOnes |-> Append(newOnes, t)]
  ELSE IF at <= Len(existingArr)
  THEN [existingArr |-> [existingArr EXCEPT ![at] = OverlayEnrichment(@, t)],
        newOnes |-> newOnes]
  ELSE [existingArr |-> existingArr,
        newOnes |-> [newOnes EXCEPT ![at - Len(existingArr)] = OverlayEnrichment(@, t)]]

MergeScrubbed(done, t) ==
  MergeEntry(done.existingArr, done.newOnes, t,
             LookupByKey(done.existingArr, done.newOnes, keyOf(t)))

\* the loop over the fresh transactions, from transaction i on
RECURSIVE MergeLoop(_, _, _)
MergeLoop(done, transactions, i) ==
  IF i > Len(transactions) THEN done
  ELSE MergeLoop(MergeScrubbed(done, scrubLoginFields(transactions[i])),
                 transactions, i + 1)

\* variant: the new entries are appended to the existing ones
ExistingFirst(done) == done.existingArr \o done.newOnes

\* [...newOnes, ...existingArr]
NewOnesFirst(done) == done.newOnes \o done.existingArr

mergedTransactions(existing, transactions) ==
  NewOnesFirst(MergeLoop([existingArr |-> existingArrOf(existing, transactions),
                          newOnes |-> <<>>],
                         transactions, 1))

\* the persisted document { count, withOrderId, transactions }
Persisted(transactions) ==
  [count |-> Len(transactions),
   withOrderId |-> Cardinality({k \in 1..Len(transactions) : Truthy(transactions[k].orderId)}),
   transactions |-> transactions]

mergedPayload(existing, transactions) ==
  Persisted(mergedTransactions(existing.transactions, transactions))

(***************************************************************************)
(* Ledger sync run (ynab-sync.ts).  selection is selectedOrderIdSet; the   *)
(* empty set stands for no selection.  Positions are 1-based: the code's   *)
(* index of transactions[k] is k - 1.                                      *)
(***************************************************************************)
TrimmedOrderId(t) == IF Nullish(t.orderId) THEN NULL ELSE Trim(t.orderId)

IsoDateOf(t) == IF Truthy(t.date) THEN IsoDate(t.date) ELSE NULL

isSantanderPunkte(t) ==
  ~Nullish(t.paymentInstrument) /\ Includes(t.paymentInstrument, "Santander-Punkte")

\* variant: the synced flag alone decides, and only with a duplicate flag
completedByDuplicateFlag(t) == t.ynabSynced /\ t.ynabSync.duplicateImportId

completedYnabSync(t) == t.ynabSynced /\ Truthy(t.ynabSync.ynabTransactionId)

\* variant: every record of a payment for several orders is a candidate
DispositionEveryOrderOfBundle(t, selection) ==
  IF IsoDateOf(t) = NULL THEN "invalid-date"
  ELSE IF completedYnabSync(t) THEN "already-synced"
  ELSE IF selection # {} /\ (~Truthy(TrimmedOrderId(t)) \/ TrimmedOrderId(t) \notin selection)
  THEN "not-selected"
  ELSE IF isSantanderPunkte(t) THEN "santander-punkte"
  ELSE "candidate"

\* variant: loyalty-point lines are skipped in restricted runs only
DispositionLoyaltyInRestricted(t, selection) ==
  IF IsoDateOf(t) = NULL THEN "invalid-date"
  ELSE IF completedYnabSync(t) THEN "already-synced"
  ELSE IF selection # {} /\ (~Truthy(TrimmedOrderId(t)) \/ TrimmedOrderId(t) \notin selection)
  THEN "not-selected"
  ELSE IF selection # {} /\ isSantanderPunkte(t) THEN "santander-punkte"
  ELSE IF t.multiOrderTransaction /\ t.orderIndex # 0 THEN "multi-order-secondary"
  ELSE "candidate"

\* what the selection loop does with transaction k
Disposition(t, selection) ==
  IF IsoDateOf(t) = NULL THEN "invalid-date"
  ELSE IF completedYnabSync(t) THEN "already-synced"
  ELSE IF selection # {} /\ (~Truthy(TrimmedOrderId(t)) \/ TrimmedOrderId(t) \notin selection)
  THEN "not-selected"
  ELSE IF isSantanderPunkte(t) THEN "santander-punkte"
  ELSE IF t.multiOrderTransaction /\ t.orderIndex # 0 THEN "multi-order-secondary"
  ELSE "candidate"

\* the positions of the candidates, in store order
CandidatePositions(transactions, selection) ==
  LET IsCandidate(k) == Disposition(transactions[k], selection) = "candidate"
  IN Filter([k \in 1..Len(transactions) |-> k], IsCandidate)

\* the amount text a candidate is parsed from
AmountTextOf(t) ==
  IF t.multiOrderTransaction
  THEN (IF Truthy(t.totalAmount) THEN t.totalAmount ELSE t.amount)
  ELSE t.amount

\* amountToMilliunits throws on a missing amount text (amountStr.includes)
AmountThrows(t) == Nullish(AmountTextOf(t))

RetryModulus == 1679616
ImportIdLimit == 36

\* Number.prototype.toString(36) of a value below RetryModulus
Base36Digits == "0123456789abcdefghijklmnopqrstuvwxyz"

RECURSIVE ToBase36(_)
ToBase36(n) ==
  IF n < 36 THEN CharAt(Base36Digits, n + 1)
  ELSE ToBase36(n \div 36) \o CharAt(Base36Digits, (n % 36) + 1)

\* `${amountMilli}`
NumberText(n) == IF n.nan THEN "NaN" ELSE ToString(n.milli)

baseImportId(t) ==
  "AMZ:" \o NumberText(Milliunits(AmountTextOf(t), t.isRefund)) \o ":" \o IsoDateOf(t)

HasYnabSync(t) == t.ynabSync # NoYnabSync

\* variant: an import id that also carries the position of the record
importIdPerPosition(t, k, retrySeed) == baseImportId(t) \o ":" \o ToString(k)

\* the import id of the candidate at position k (index k - 1)
\* importId.length > 36 ? importId.slice(0, 36) : importId
CutImportId(full) ==
  IF Len(full) > ImportIdLimit THEN SubSeq(full, 1, ImportIdLimit) ELSE full

\* ((retrySeed + index) % 1679616).toString(36).padStart(3, "0")
RetrySuffix(k, retrySeed) ==
  PadStart0(ToBase36((retrySeed + (k - 1)) % RetryModulus), 3)

importIdOf(t, k, retrySeed) ==
  IF HasYnabSync(t) /\ ~Truthy(t.ynabSync.ynabTransactionId)
  THEN CutImportId(baseImportId(t) \o ":r" \o RetrySuffix(k, retrySeed))
  ELSE baseImportId(t)

(***************************************************************************)
(* The memo of a payload (ynab-sync.ts, in the map over the candidates).   *)
(***************************************************************************)
MemoLimit == 200
PreviewLimit == 40

\* s.slice(0, n) for n >= 0
SliceTo(s, n) == IF Len(s) > n THEN SubSeq(s, 1, n) ELSE s

\* the position of the loyalty companion of an order id, 0 when it has none
SantanderPositionOf(transactions, orderId) ==
  LET IsCompanion(k) == /\ Truthy(TrimmedOrderId(transactions[k]))
                        /\ TrimmedOrderId(transactions[k]) = orderId
                        /\ isSantanderPunkte(transactions[k])
  IN IF ~Truthy(orderId) \/ ~\E k \in 1..Len(transactions) : IsCompanion(k) THEN 0
     ELSE CHOOSE k \in 1..Len(transactions) :
            IsCompanion(k) /\ \A h \in 1..(k - 1) : ~IsCompanion(h)

\* candidate.aiSummary || (candidate.orderDescription ? ....slice(0, 200) : "")
primaryMemo(candidate) ==
  IF Truthy(candidate.aiSummary) THEN candidate.aiSummary
  ELSE IF Truthy(candidate.orderDescription)
  THEN SliceTo(candidate.orderDescription, MemoLimit)
  ELSE ""

\* relatedOrders: the records of a payment for several orders with the
\* candidate's date and total
relatedOrders(transactions, candidate) ==
  LET Same(t) == /\ t.multiOrderTransaction
                 /\ t.date = candidate.date
                 /\ t.totalAmount = candidate.totalAmount
  IN SelectSeq(transactions, Same)

\* a.orderIndex || 0
OrderIndexOrZero(t) == IF t.orderIndex < 0 THEN 0 ELSE t.orderIndex

InsertByOrderIndex(sorted, t) ==
  LET NotAfter(o) == OrderIndexOrZero(o) <= OrderIndexOrZero(t)
      After(o) == OrderIndexOrZero(o) > OrderIndexOrZero(t)
  IN SelectSeq(sorted, NotAfter) \o <<t>> \o SelectSeq(sorted, After)

\* relatedOrders.sort((a, b) => (a.orderIndex || 0) - (b.orderIndex || 0)),
\* a stable sort
RECURSIVE SortedByOrderIndex(_)
SortedByOrderIndex(orders) ==
  IF orders = <<>> THEN <<>>
  ELSE InsertByOrderIndex(SortedByOrderIndex(SubSeq(orders, 1, Len(orders) - 1)),
                          orders[Len(orders)])

\* order.orderSummary?.total || "?"
OrderTotalOf(order) ==
  IF IsSome(order.orderSummary) /\ Truthy(Get(order.orderSummary).total)
  THEN Get(order.orderSummary).total ELSE "?"

\* order.orderItems?.[0]?.title || order.orderId || "Unbekannt"
FirstItemOf(order) ==
  IF IsSome(order.orderItems) /\ Len(Get(order.orderItems)) > 0
     /\ Truthy(Get(order.orderItems)[1][1])
  THEN Get(order.orderItems)[1][1]
  ELSE IF Truthy(order.orderId) THEN order.orderId ELSE "Unbekannt"

ItemPreview(firstItem) ==
  IF Len(firstItem) > PreviewLimit
  THEN SubSeq(firstItem, 1, PreviewLimit) \o "..." ELSE firstItem

\* `[${idx + 1}] ${itemPreview} (${orderTotal}<currency sign>)`
OrderSummaryEntry(order, n) ==
  "[" \o ToString(n) \o "] " \o ItemPreview(FirstItemOf(order))
      \o " (" \o OrderTotalOf(order) \o CurrencySign \o ")"

OrderSummaries(sorted) ==
  Join([n \in 1..Len(sorted) |-> OrderSummaryEntry(sorted[n], n)], " | ")

\* the memo after the block for payments of several orders
MultiOrderMemo(memo, candidate, related) ==
  IF /\ candidate.multiOrderTransaction
     /\ candidate.totalOrders > 1
     /\ Truthy(TrimmedOrderId(candidate))
     /\ Len(related) > 1
  THEN "Multi-Order: " \o OrderSummaries(SortedByOrderIndex(related))
  ELSE memo

\* ` [Santander-Punkte: ${punkteAmount}]`
PunkteInfo(santanderTransaction) ==
  " [Santander-Punkte: "
    \o (IF Truthy(santanderTransaction.amount) THEN santanderTransaction.amount ELSE "0")
    \o "]"

\* variant: the annotation is appended and the whole memo cut to the limit
AppendPunkteThenCut(memo, punkteInfo) == SliceTo(memo \o punkteInfo, MemoLimit)

\* the memo cut to make room for the annotation, then the annotation
AppendPunkte(memo, punkteInfo) ==
  SliceTo(memo, MemoLimit - Len(punkteInfo)) \o punkteInfo

\* the memo after the block for the loyalty companion at position santander
SantanderMemo(memo, transactions, santander) ==
  IF santander = 0 THEN memo
  ELSE AppendPunkte(memo, PunkteInfo(transactions[santander]))

\* the memo of the payload of the candidate at position k
memoOf(transactions, k) ==
  SantanderMemo(MultiOrderMemo(primaryMemo(transactions[k]), transactions[k],
                               relatedOrders(transactions, transactions[k])),
                transactions,
                SantanderPositionOf(transactions, TrimmedOrderId(transactions[k])))

\* prepared: one item per candidate
PreparedItem(t, k, retrySeed, memo) ==
  [position    |-> k,
   memo        |-> memo,
   amountMilli |-> Milliunits(AmountTextOf(t), t.isRefund).milli,
   isoDate     |-> IsoDateOf(t),
   importId    |-> importIdOf(t, k, retrySeed)]

PreparedAt(transactions, at, retrySeed) ==
  [n \in 1..Len(at) |-> PreparedItem(transactions[at[n]], at[n], retrySeed,
                               memoOf(transactions, at[n]))]

prepared(transactions, selection, retrySeed) ==
  PreparedAt(transactions, CandidatePositions(transactions, selection), retrySeed)

\* some candidate makes the map over the candidates throw
PreparedThrows(transactions, selection) ==
  \E k \in 1..Len(transactions) :
    /\ Disposition(transactions[k], selection) = "candidate"
    /\ AmountThrows(transactions[k])

(***************************************************************************)
(* The external ledger.  It holds the entries it created; an import id it  *)
(* already holds is a duplicate.  key is the merge identity of the record  *)
(* the entry was created for (history, not ledger data).                   *)
(***************************************************************************)
LedgerHolds(entries, importId) == \E e \in 1..Len(entries) : entries[e].import_id = importId

LedgerId(n) == "ynab-" \o ToString(n)

\* the ledger after payloads n.. of a batch
RECURSIVE LedgerAccept(_, _, _, _)
LedgerAccept(entries, items, keys, n) ==
  IF n > Len(items) THEN entries
  ELSE IF LedgerHolds(entries, items[n].importId)
  THEN LedgerAccept(entries, items, keys, n + 1)
  ELSE LedgerAccept(Append(entries, [id |-> LedgerId(Len(entries) + 1),
                                     import_id |-> items[n].importId,
                                     key |-> keys[n]]),
                    items, keys, n + 1)

\* duplicate_import_ids of the answer to a batch
DuplicateImportIds(before, after, items) ==
  {items[n].importId : n \in {m \in 1..Len(items) :
     \/ LedgerHolds(before, items[m].importId)
     \/ \E h \in 1..(m - 1) : items[h].importId = items[m].importId}}

\* which of the count entries created for a batch the ledger echoes the
\* import id of: all or none of them, or (each) any of them
EchoSets(count, each) == IF each THEN SUBSET (1..count) ELSE {{}, 1..count}

\* data.transactions of the answer: the entries created for the batch; the
\* ledger echoes the import id of those in echoed only
CreatedTransactions(before, after, echoed) ==
  [n \in 1..(Len(after) - Len(before)) |->
     [id |-> after[Len(before) + n].id,
      import_id |-> IF n \in echoed THEN after[Len(before) + n].import_id ELSE NULL]]

(***************************************************************************)
(* Response interpretation and write-back (ynab-sync.ts, after the POST).  *)
(***************************************************************************)
\* variant: no created entry is ever matched
matchedIdNever(created, importId) == NULL

\* byImportId.get(importId) || null : the last created entry echoing it
matchedIdOf(created, importId) ==
  LET hits == {n \in 1..Len(created) :
                 Truthy(created[n].import_id) /\ Truthy(created[n].id)
                 /\ created[n].import_id = importId}
  IN IF hits = {} THEN NULL
     ELSE created[CHOOSE n \in hits : \A m \in hits : m <= n].id

\* variant: the record keeps the import id of a first attempt
WriteOwnBaseId(transactions, item, matchedId, isDuplicate) ==
  [transactions EXCEPT
     ![item.position].ynabSynced = TRUE,
     ![item.position].ynabSync =
        [importId |-> baseImportId(transactions[item.position]),
         ynabTransactionId |-> matchedId,
         duplicateImportId |-> isDuplicate,
         amountMilliunits |-> item.amountMilli]]

\* the write-back to the record of the item itself
WriteOwn(transactions, item, matchedId, isDuplicate) ==
  [transactions EXCEPT
     ![item.position].ynabSynced = TRUE,
     ![item.position].ynabSync =
        [importId |-> item.importId, ynabTransactionId |-> matchedId,
         duplicateImportId |-> isDuplicate,
         amountMilliunits |-> item.amountMilli]]

\* variant: the companion is marked synced without the ledger's id
WriteCompanionUnlinked(own, original, item, matchedId, santander) ==
  IF santander = 0 THEN own
  ELSE [own EXCEPT
          ![santander].ynabSynced = TRUE,
          ![santander].ynabSync =
             [importId |-> item.importId \o ":punkte", ynabTransactionId |-> NULL,
              duplicateImportId |-> FALSE,
              amountMilliunits |->
                Milliunits(original[santander].amount, FALSE).milli]]

\* the write-back to the loyalty companion at position santander, if any
WriteCompanion(own, original, item, matchedId, santander) ==
  IF santander = 0 THEN own
  ELSE [own EXCEPT
          ![santander].ynabSynced = TRUE,
          ![santander].ynabSync =
             [importId |-> item.importId \o ":punkte", ynabTransactionId |-> matchedId,
              duplicateImportId |-> FALSE,
              amountMilliunits |->
                Milliunits(original[santander].amount, FALSE).milli]]

WriteBackMatched(transactions, original, item, matchedId, isDuplicate) ==
  WriteCompanion(WriteOwn(transactions, item, matchedId, isDuplicate), original, item,
                 matchedId,
                 SantanderPositionOf(original, TrimmedOrderId(original[item.position])))

\* the write-back of one prepared item
WriteBackItem(transactions, original, item, created, duplicates) ==
  WriteBackMatched(transactions, original, item, matchedIdOf(created, item.importId),
                   item.importId \in duplicates)

RECURSIVE WriteBackLoop(_, _, _, _, _, _)
WriteBackLoop(transactions, original, items, created, duplicates, n) ==
  IF n > Len(items) THEN transactions
  ELSE WriteBackLoop(WriteBackItem(transactions, original, items[n], created, duplicates),
                     original, items, created, duplicates, n + 1)

\* the loop throws when a companion has no amount text
CompanionThrows(original, santander) ==
  santander # 0 /\ Nullish(original[santander].amount)

WriteBackThrows(original, items) ==
  \E n \in 1..Len(items) :
    CompanionThrows(original,
      SantanderPositionOf(original, TrimmedOrderId(original[items[n].position])))

(***************************************************************************)
(* The summary of a sync run: the filter buckets and the status of each    *)
(* order id the caller selected.                                           *)
(***************************************************************************)
SUMMARY_SAMPLE_LIMIT == 5

makeFilterEntry == [count |-> 0, examples |-> <<>>]

\* orderId || `index-${index}`
sampleId(t, k) ==
  IF Truthy(TrimmedOrderId(t)) THEN TrimmedOrderId(t) ELSE "index-" \o ToString(k - 1)

\* variant: every sample is kept
recordFilterEverySample(entry, sample) ==
  [count |-> entry.count + 1,
   examples |-> IF Truthy(sample) THEN Append(entry.examples, sample) ELSE entry.examples]

recordFilter(entry, sample) ==
  [count |-> entry.count + 1,
   examples |-> IF Truthy(sample) /\ Len(entry.examples) < SUMMARY_SAMPLE_LIMIT
                THEN Append(entry.examples, sample)
                ELSE entry.examples]

\* the bucket of the records the selection loop left with this label
RECURSIVE FilterLoop(_, _, _, _)
FilterLoop(entry, transactions, label, k) ==
  IF k > Len(transactions) THEN entry
  ELSE FilterLoop(IF Disposition(transactions[k], {}) = label
                  THEN recordFilter(entry, sampleId(transactions[k], k))
                  ELSE entry,
                  transactions, label, k + 1)

\* the status the selection loop sets for the order id of a record it left
\* with this label; NULL where it sets none
StatusOfLabel(label) ==
  IF label = "invalid-date" THEN "invalid-date"
  ELSE IF label = "already-synced" \/ label = "multi-order-secondary" THEN "already-synced"
  ELSE IF label = "candidate" THEN "queued"
  ELSE NULL

\* if (orderId && selectionStatusMap?.has(orderId)) selectionStatusMap.set(...)
SetStatus(statuses, orderId, status) ==
  IF Truthy(orderId) /\ orderId \in DOMAIN statuses /\ status # NULL
  THEN [statuses EXCEPT ![orderId] = status]
  ELSE statuses

RECURSIVE SelectionLoop(_, _, _, _)
SelectionLoop(statuses, transactions, selection, k) ==
  IF k > Len(transactions) THEN statuses
  ELSE SelectionLoop(SetStatus(statuses, TrimmedOrderId(transactions[k]),
                               StatusOfLabel(Disposition(transactions[k], selection))),
                     transactions, selection, k + 1)

\* the statuses the write-back sets for the items up to the one it ends with
RECURSIVE StatusWriteBack(_, _, _, _, _, _, _)
StatusWriteBack(statuses, original, items, created, duplicates, n, last) ==
  IF n > last THEN statuses
  ELSE StatusWriteBack(
         SetStatus(statuses, TrimmedOrderId(original[items[n].position]),
                   IF Truthy(matchedIdOf(created, items[n].importId))
                      \/ items[n].importId \in duplicates
                   THEN "synced" ELSE "queued"),
         original, items, created, duplicates, n + 1, last)

\* the item the write-back loop ends with: the first whose companion makes
\* it throw, the last one otherwise
LastWrittenItem(original, items) ==
  IF WriteBackThrows(original, items)
  THEN CHOOSE n \in 1..Len(items) :
         /\ CompanionThrows(original,
              SantanderPositionOf(original, TrimmedOrderId(original[items[n].position])))
         /\ \A m \in 1..(n - 1) :
              ~CompanionThrows(original,
                SantanderPositionOf(original, TrimmedOrderId(original[items[m].position])))
  ELSE Len(items)

NoSummary ==
  [invalidDate |-> makeFilterEntry, alreadySynced |-> makeFilterEntry, selection |-> <<>>]

\* the summary after the selection loop
SummaryOf(transactions, selection) ==
  [invalidDate |-> FilterLoop(makeFilterEntry, transactions, "invalid-date", 1),
   alreadySynced |-> FilterLoop(makeFilterEntry, transactions, "already-synced", 1),
   selection |-> SelectionLoop([o \in selection |-> "not-found"], transactions, selection, 1)]

(***************************************************************************)
(* Server handlers on the persisted document (server.ts).                  *)
(***************************************************************************)
\* POST /api/delete-transactions with the trimmed, non-empty ids
deleteTransactions(data, ids) ==
  LET Keep(t) == ~Truthy(t.orderId) \/ t.orderId \notin ids
      filtered == Filter(data.transactions, Keep)
  IN IF Len(data.transactions) - Len(filtered) = 0 THEN data ELSE Persisted(filtered)

\* POST /api/reset-ynab-status with the trimmed, non-empty ids
resetYnabStatus(data, ids) ==
  LET Hit(t) == Truthy(t.orderId) /\ t.orderId \in ids
      touched == Cardinality({k \in 1..Len(data.transactions) :
                    /\ Hit(data.transactions[k])
                    /\ (data.transactions[k].ynabSynced \/ HasYnabSync(data.transactions[k]))})
  IN IF touched = 0 THEN data
     ELSE [data EXCEPT !.transactions =
             [k \in 1..Len(data.transactions) |->
                IF Hit(data.transactions[k])
                THEN [data.transactions[k] EXCEPT !.ynabSynced = FALSE, !.ynabSync = NoYnabSync]
                ELSE data.transactions[k]]]

(***************************************************************************)
(* The inputs of the model.                                                *)
(***************************************************************************)
RawBlock(ids, date, amount, instrument) ==
  [orderIdMatches |-> ids, date |-> date, amount |-> amount,
   paymentInstrument |-> instrument, erstattet |-> FALSE]

\* the transaction links a transactions page can show: two single orders of
\* the same day and amount (the second with the dash the pattern picks up
\* after the number), a bundle of two orders, and a loyalty-point line
LinkA == RawBlock(<<OrderX>>, DateOne, AmountOne, "Visa")
LinkB == RawBlock(<<OrderY \o "-">>, DateOne, AmountOne, "Visa")
LinkM == RawBlock(<<OrderX, OrderZ>>, DateTwo, AmountTwo, "Mastercard")
LinkS == RawBlock(<<OrderX>>, DateOne, AmountPoints, "Santander-Punkte")

\* the pages of the scrape runs, links in page order
Pages ==
  {<<LinkA>>, <<LinkA, LinkA>>, <<LinkM>>, <<LinkM, LinkA>>, <<LinkA, LinkM>>, <<LinkS, LinkA>>}
SyncPages == {<<LinkA>>, <<LinkA, LinkB>>}

\* --last=N of the scrape
LastCounts == {1, 4}

\* what the order page of an order can yield (fetchOrderTitles) and what the
\* summary service then answers (generateSummary)
NoDetail == None
OkDetail ==
  Some([titles |-> Some(<<TitleCable>>),
        items |-> Some(<< <<TitleCable \o " ", PriceCable>> >>),
        summary |-> Some([subtotal |-> NULL, voucher |-> NULL, bonusPoints |-> NULL,
                          shipping |-> NULL, total |-> PriceCable])])
LoginDetail ==
  Some([titles |-> Some(<<TitleLogin>>),
        items |-> Some(<< <<TitleSignIn, NULL>> >>),
        summary |-> None])

Enrichments ==
  {<<NoDetail, NULL>>, <<LoginDetail, NULL>>, <<OkDetail, NULL>>, <<OkDetail, "Kabel">>}
NoEnrichments == {<<NoDetail, NULL>>}

EmptyStore == Persisted(<<>>)

MaxStore == 3
MaxLedger == 2
MaxNow == 1

\* the time between the starts of two sync runs, in milliseconds
Elapsed == {RetryModulus, RetryModulus + 1}

\* what the ledger's endpoint can do with a request
Replies == {"ok", "unparseable-body", "non-2xx", "request-error", "request-error-applied"}

OrderIdsOf(transactions) ==
  {transactions[k].orderId : k \in {h \in 1..Len(transactions) :
                                      Truthy(transactions[h].orderId)}}

\* the order ids an operator picks: none, or one order of the store
Selections(transactions) == {{}} \cup {{o} : o \in OrderIdsOf(transactions)}

\* the body of an answer that holds no data
EmptyData == [transactions |-> <<>>, duplicate_import_ids |-> {}]

\* variant: every answer resolves, whatever its status
httpPostJSONAnyStatus(reply, data) ==
  [rejected |-> FALSE, data |-> IF reply = "ok" THEN data ELSE EmptyData]

\* httpPostJSON: resolves with the parsed body of a 2xx answer, with {} when
\* the body does not parse, and rejects otherwise
httpPostJSON(reply, data) ==
  IF reply = "ok" THEN [rejected |-> FALSE, data |-> data]
  ELSE IF reply = "unparseable-body" THEN [rejected |-> FALSE, data |-> EmptyData]
  ELSE [rejected |-> TRUE, data |-> EmptyData]

\* the ledger applied the batch of a request it answered this way
Applied(reply) == reply \in {"ok", "unparseable-body", "request-error-applied"}

\* the values of the environment variable DRY_RUN
DryRunSettings == {UNDEFINED, "1", "true"}

\* const DRY_RUN = process.env.DRY_RUN === "1"
DRY_RUN(setting) == setting = "1"

\* the last operation: what it was, with which order ids and dry-run switch
\* it was started, what it sent, what it was answered, what it printed as
\* preview, and its exit code
NoRun ==
  [op |-> "none", reply |-> "none", exit |-> 0, batch |-> <<>>, items |-> <<>>,
   data |-> EmptyData, dryRun |-> FALSE, selection |-> {}, preview |-> <<>>,
   summary |-> NoSummary]

(***************************************************************************)
(* The state: the persisted document, the entries of the ledger, the clock *)
(* and the last operation with what it sent and was answered.  now is      *)
(* Date.now() modulo RetryModulus, which is all the sync run reads of it.  *)
(* inflight holds the operations of the server that have read the document *)
(* and not yet ended; it stays empty where each operation is one step.     *)
(* syncState is the run status the server keeps of its scrape.  parsing    *)
(* holds a date text and what the two date parsers made of it; it is used  *)
(* where the parsers are checked on their own.                             *)
(***************************************************************************)
\* no date text is being parsed
NoParsing == [day |-> "", month |-> 0, year |-> "", done |-> {}, iso |-> NULL, date |-> <<>>,
              kept |-> FALSE]

\* const syncState: SyncStatus = { status: 'idle', logs: [] }
IdleState == [status |-> "idle"]

VARIABLES store, ledger, now, run, inflight, syncState, parsing

vars == <<store, ledger, now, run, inflight, syncState, parsing>>

Init ==
  /\ store = EmptyStore
  /\ ledger = <<>>
  /\ now = 0
  /\ run = NoRun
  /\ inflight = {}
  /\ syncState = IdleState
  /\ parsing = NoParsing

\* transactions-to-json.ts main, steps 1 and 2: the fresh transactions of a
\* page, scraped with --last=lastCount and enriched
BatchOf(page, enrichment, lastCount) ==
  LET ids == OrderIdsOf(AllBlockTransactions(page))
  IN EnrichTransactions(extractTransactions(page, [lastCount |-> lastCount]),
                        [o \in ids |-> enrichment[1]], [o \in ids |-> enrichment[2]])

FreshBatches(pages, enrichments) ==
  {BatchOf(page, enrichment, lastCount) :
     page \in pages, enrichment \in enrichments, lastCount \in LastCounts}

MergeBatches == FreshBatches(Pages, Enrichments)
ScrapeBatches == FreshBatches(SyncPages, NoEnrichments)
PlainBatches == FreshBatches(Pages, NoEnrichments)

\* transactions-to-json.ts main: scrape, enrich, merge, write
\* fs.writeFileSync(outPath, JSON.stringify(mergedPayload, null, 2))
WriteMergedUpTo(bound, merged, transactions) ==
  /\ Len(merged.transactions) <= bound
  /\ store' = merged
  /\ run' = [NoRun EXCEPT !.op = "merge", !.batch = transactions]
  /\ UNCHANGED <<ledger, now>>

WriteMerged(merged, transactions) == WriteMergedUpTo(MaxStore, merged, transactions)

MergeOf(batches) ==
  \E transactions \in batches :
    /\ WriteMerged(mergedPayload(store, transactions), transactions)
    /\ UNCHANGED <<inflight, syncState, parsing>>

Merge == MergeOf(MergeBatches)

Scrape == MergeOf(ScrapeBatches)

Delete ==
  \E ids \in Selections(store.transactions) \ {{}} :
    /\ store' = deleteTransactions(store, ids)
    /\ run' = [NoRun EXCEPT !.op = "delete"]
    /\ UNCHANGED <<ledger, now, inflight, syncState, parsing>>

Reset ==
  \E ids \in Selections(store.transactions) \ {{}} :
    /\ store' = resetYnabStatus(store, ids)
    /\ run' = [NoRun EXCEPT !.op = "reset"]
    /\ UNCHANGED <<ledger, now, inflight, syncState, parsing>>

\* ynab-sync.ts main: select, prepare, POST, interpret, write back.  The
\* run ends with exit code 0, or 2 from the catch block.
\* the run ends with this exit code
Exit(started, code, reply, sent, data) ==
  run' = [started EXCEPT !.reply = reply, !.exit = code, !.items = sent, !.data = data]

\* variant: the preview also marks the previewed records as synced
SyncPreviewMarking(started, transactions, items) ==
  /\ run' = [started EXCEPT !.preview = items]
  /\ store' = [store EXCEPT !.transactions =
                 WriteBackLoop(transactions, transactions, items, <<>>, {}, 1)]
  /\ UNCHANGED ledger

\* the DRY_RUN branch: print the payloads and exit
SyncPreview(started, transactions, items) ==
  /\ run' = [started EXCEPT !.preview = items]
  /\ UNCHANGED <<store, ledger>>

\* the run after the write-back loop: the statuses of the written items
WrittenBack(started, transactions, items, data) ==
  [started EXCEPT !.summary.selection =
     StatusWriteBack(started.summary.selection, transactions, items, data.transactions,
                     data.duplicate_import_ids, 1, LastWrittenItem(transactions, items))]

\* after the POST: a rejected request or a throwing write-back ends in the
\* catch block, anything else writes the document the run parsed at its start
SyncAnswer(parsed, started, items, after, reply, resp) ==
  /\ Len(after) <= MaxLedger
  /\ ledger' = IF Applied(reply) THEN after ELSE ledger
  /\ IF resp.rejected
     THEN Exit(started, 2, reply, items, resp.data) /\ UNCHANGED store
     ELSE IF WriteBackThrows(parsed.transactions, items)
     THEN /\ Exit(WrittenBack(started, parsed.transactions, items, resp.data), 2, reply,
                  items, resp.data)
          /\ UNCHANGED store
     ELSE /\ Exit(WrittenBack(started, parsed.transactions, items, resp.data), 0, reply,
                  items, resp.data)
          /\ store' = [parsed EXCEPT !.transactions =
               WriteBackLoop(parsed.transactions, parsed.transactions, items,
                             resp.data.transactions, resp.data.duplicate_import_ids, 1)]

\* the POST of a batch the ledger turns into the entries after
SyncPost(parsed, replies, started, items, after, each) ==
  \E reply \in replies, echoed \in EchoSets(Len(after) - Len(ledger), each) :
    SyncAnswer(parsed, started, items, after, reply,
               httpPostJSON(reply,
                 [transactions |-> CreatedTransactions(ledger, after, echoed),
                  duplicate_import_ids |-> DuplicateImportIds(ledger, after, items)]))

\* the merge identities of the records of a batch (history, not ledger data)
KeysOf(transactions, items) ==
  [n \in 1..Len(items) |-> keyOf(transactions[items[n].position])]

\* the run from the prepared batch on
SyncPrepared(replies, started, transactions, items, each) ==
  IF PreparedThrows(transactions, started.selection)
  THEN Exit(started, 2, "none", <<>>, EmptyData) /\ UNCHANGED <<store, ledger>>
  ELSE IF items = <<>>
  THEN Exit(started, 0, "none", <<>>, EmptyData) /\ UNCHANGED <<store, ledger>>
  ELSE IF started.dryRun
  THEN SyncPreview(started, transactions, items)
  ELSE SyncPost(store, replies, started, items,
                LedgerAccept(ledger, items, KeysOf(transactions, items), 1), each)

\* the run as it starts: the order ids it is restricted to and DRY_RUN
Started(selection, setting) ==
  [NoRun EXCEPT !.op = "sync", !.selection = selection, !.dryRun = DRY_RUN(setting)]

\* the run after the selection loop
Selected(started, transactions) ==
  [started EXCEPT !.summary = SummaryOf(transactions, started.selection)]

SyncRunWith(replies, selections, each) ==
  \E selection \in selections, elapsed \in Elapsed, setting \in DryRunSettings :
    /\ (now + elapsed) % RetryModulus <= MaxNow
    /\ now' = (now + elapsed) % RetryModulus
    /\ SyncPrepared(replies, Selected(Started(selection, setting), store.transactions),
                    store.transactions,
                    prepared(store.transactions, selection, now), each)
    /\ UNCHANGED <<inflight, syncState, parsing>>

SyncRunOf(replies) == SyncRunWith(replies, Selections(store.transactions), FALSE)

SyncRun == SyncRunOf(Replies)

Next == Scrape \/ SyncRun \/ Delete \/ Reset

Spec == Init /\ [][Next]_vars

NextMerge == Merge \/ Delete

SpecMerge == Init /\ [][NextMerge]_vars

\* every page, a ledger that answers
ScrapeAny == MergeOf(PlainBatches)

SyncAnswered == SyncRunOf({"ok"})

NextStore == ScrapeAny \/ SyncAnswered \/ Delete \/ Reset

SpecStore == Init /\ [][NextStore]_vars

(***************************************************************************)
(* Sync runs answered by a ledger that echoes the import id of any of the  *)
(* entries it created, on stores where records share an order id.          *)
(***************************************************************************)
SyncEchoed == SyncRunWith({"ok"}, Selections(store.transactions), TRUE)

NextEcho == ScrapeAny \/ SyncEchoed

SpecEcho == Init /\ [][NextEcho]_vars

(***************************************************************************)
(* Sync runs on a transactions.json that holds loyalty-point lines.  The   *)
(* scrape leaves such lines out and the merge removes them from the file   *)
(* it reads; the sync run looks for them in every file it is given.        *)
(***************************************************************************)
\* a loyalty-point link without an amount, and one of an order of its own
LinkSNoAmount == RawBlock(<<OrderX>>, DateOne, NULL, "Santander-Punkte")
LinkSOwnOrder == RawBlock(<<OrderY>>, DateOne, AmountPoints, "Santander-Punkte")

\* the transaction objects of the links, unfiltered
Unfiltered(links) == AllBlockTransactions(links)

RECURSIVE Repeat(_, _)
Repeat(text, n) == IF n = 0 THEN "" ELSE text \o Repeat(text, n - 1)

\* a text longer than a memo may be
LongText == Repeat("Kabel und Adapter, ", 12)

\* the records with the text as the summary the service wrote
Summarized(transactions, text) ==
  [k \in 1..Len(transactions) |->
     IF isSantanderPunkte(transactions[k]) THEN transactions[k]
     ELSE [transactions[k] EXCEPT !.aiSummary = text]]

\* the records with the text as the description of the order
Described(transactions, text) ==
  [k \in 1..Len(transactions) |->
     IF isSantanderPunkte(transactions[k]) THEN transactions[k]
     ELSE [transactions[k] EXCEPT !.orderDescription = text]]

CompanionStores ==
  {Persisted(Unfiltered(links)) :
     links \in {<<LinkA, LinkS>>, <<LinkS, LinkA>>, <<LinkA, LinkSOwnOrder>>,
                <<LinkA, LinkSNoAmount>>, <<LinkM, LinkS>>}}
    \cup {Persisted(Summarized(Unfiltered(<<LinkA, LinkS>>), LongText)),
          Persisted(Described(Unfiltered(<<LinkS, LinkA>>), LongText)),
          Persisted(Summarized(Unfiltered(<<LinkA, LinkSNoAmount>>), "Kabel"))}

InitCompanion ==
  /\ store \in CompanionStores
  /\ ledger = <<>>
  /\ now = 0
  /\ run = NoRun
  /\ inflight = {}
  /\ syncState = IdleState
  /\ parsing = NoParsing

\* an order id no link of the model shows
OrderAbsent == "304-7777777-8888888"

\* the order ids a caller passes: none, one order of the store, an order the
\* store does not hold, or both
CallerSelections(transactions) ==
  Selections(transactions)
    \cup {{OrderAbsent}}
    \cup {{o, OrderAbsent} : o \in OrderIdsOf(transactions)}

SyncSelected == SyncRunWith({"ok"}, CallerSelections(store.transactions), FALSE)

NextCompanion == SyncSelected \/ Reset

SpecCompanion == InitCompanion /\ [][NextCompanion]_vars

(***************************************************************************)
(* Merges into a transactions.json of an earlier version of the scrape:    *)
(* it holds loyalty-point lines, with and without a card record of the     *)
(* same order, and an order id with the dash the pattern picks up.         *)
(***************************************************************************)
\* the record of a link as the scrape wrote it before it removed the dash
Dashed(t) == [t EXCEPT !.orderId = @ \o "-"]

LegacyStores ==
  {Persisted(Unfiltered(<<LinkA, LinkS>>)),
   Persisted(Unfiltered(<<LinkA, LinkSOwnOrder>>)),
   Persisted(<<Dashed(BlockTransaction(LinkB, 1)), BlockTransaction(LinkA, 1)>>)}

InitLegacy ==
  /\ store \in LegacyStores
  /\ ledger = <<>>
  /\ now = 0
  /\ run = NoRun
  /\ inflight = {}
  /\ syncState = IdleState
  /\ parsing = NoParsing

NextLegacy == ScrapeAny \/ SyncAnswered \/ Delete

SpecLegacy == InitLegacy /\ [][NextLegacy]_vars

(***************************************************************************)
(* Merges into a transactions.json with a record that holds the text of    *)
(* the login page, of batches whose order pages were answered with the     *)
(* login page, with details, or not at all.                                *)
(***************************************************************************)
\* a record as a scrape wrote it that was answered with the login page
LoginStained(t) ==
  [t EXCEPT !.orderDescription = TitleLogin,
            !.orderTitles = Some(<<TitleLogin, TitleCable>>),
            !.orderItems = Some(<< <<TitleSignIn, NULL>> >>)]

StainedStores ==
  {EmptyStore,
   Persisted(<<LoginStained(BlockTransaction(LinkB, 1))>>),
   Persisted(<<BlockTransaction(LinkA, 1), LoginStained(BlockTransaction(LinkB, 1))>>)}

InitStained ==
  /\ store \in StainedStores
  /\ ledger = <<>>
  /\ now = 0
  /\ run = NoRun
  /\ inflight = {}
  /\ syncState = IdleState
  /\ parsing = NoParsing

ScrapeStained == MergeOf(FreshBatches(SyncPages, Enrichments))

NextStained == ScrapeStained \/ Delete

SpecStained == InitStained /\ [][NextStained]_vars

(***************************************************************************)
(* Two payments of the same day and the same total, each for two orders,   *)
(* scraped with and without order details, and the sync runs on them.      *)
(***************************************************************************)
OrderW == "304-7777777-8888888"

LinkM2 == RawBlock(<<OrderY, OrderW>>, DateTwo, AmountTwo, "Mastercard")

BundlePages == {<<LinkM>>, <<LinkM, LinkM2>>}

MaxBundleStore == 4

BundleBatches ==
  {BatchOf(page, enrichment, lastCount) :
     page \in BundlePages, enrichment \in {<<NoDetail, NULL>>, <<OkDetail, "Kabel">>},
     lastCount \in {MaxBundleStore}}

ScrapeBundles ==
  \E transactions \in BundleBatches :
    /\ WriteMergedUpTo(MaxBundleStore, mergedPayload(store, transactions), transactions)
    /\ UNCHANGED <<inflight, syncState, parsing>>

NextBundles == ScrapeBundles \/ SyncAnswered

SpecBundles == Init /\ [][NextBundles]_vars

(***************************************************************************)
(* Sync runs on records the scrape could not read in full: a link shows a  *)
(* date or an amount and becomes a record with the other one missing.      *)
(***************************************************************************)
LinkNoAmount == RawBlock(<<OrderY>>, DateOne, NULL, "Visa")

LinkNoDate(order, amount) == RawBlock(<<order>>, NULL, amount, "Visa")

\* a link whose order number the pattern /Bestellnummer\s+([0-9-]+)/ finds
\* as a dash alone
LinkDashOnly == RawBlock(<<"-">>, DateTwo, AmountTwo, "Visa")

\* a page of six links without a date
DatelessPage ==
  <<LinkNoDate(OrderX, AmountOne), LinkNoDate(OrderX, AmountTwo),
    LinkNoDate(OrderY, AmountOne), LinkNoDate(OrderY, AmountTwo),
    LinkNoDate(OrderZ, AmountOne), LinkNoDate(OrderZ, AmountTwo)>>

PartialPages ==
  {<<LinkA, LinkNoAmount>>, <<LinkNoDate(OrderX, AmountOne), LinkA>>, <<LinkDashOnly, LinkA>>,
   DatelessPage}

MaxPartialStore == 7

PartialLastCounts == {MaxPartialStore}

PartialBatches ==
  {BatchOf(page, <<NoDetail, NULL>>, lastCount) :
     page \in PartialPages, lastCount \in PartialLastCounts}

ScrapePartial ==
  \E transactions \in PartialBatches :
    /\ WriteMergedUpTo(MaxPartialStore, mergedPayload(store, transactions), transactions)
    /\ UNCHANGED <<inflight, syncState, parsing>>

NextPartial == ScrapePartial \/ SyncSelected \/ Reset

SpecPartial == Init /\ [][NextPartial]_vars

(***************************************************************************)
(* The operations as the server runs them (server.ts): a request starts an *)
(* operation, which reads the document, and the operation ends later with  *)
(* its write.  POST /api/sync refuses to start while a scrape is running;  *)
(* the other handlers start whenever they are called.                      *)
(***************************************************************************)
MaxInflight == 2

\* the page the scrapes of the server find, and the time between two runs
ServerBatches == FreshBatches({<<LinkA>>}, NoEnrichments)
ServerElapsed == {RetryModulus}

\* the number of ledger entries the sync runs in flight may still create
RECURSIVE PendingItems(_)
PendingItems(ops) ==
  IF ops = {} THEN 0
  ELSE LET op == CHOOSE o \in ops : TRUE
       IN (IF op.kind = "sync-ynab" THEN Len(op.items) ELSE 0) + PendingItems(ops \ {op})

\* an operation in flight.  For a scrape, child tells what became of
\* spawn('npx', args): "running" for a process that was started, "failed"
\* for one that was not and whose 'error' event is still to come; pid tells
\* the scrapes in flight apart
NoOp ==
  [kind |-> "none", parsed |-> EmptyStore, ids |-> {}, started |-> NoRun, items |-> <<>>,
   answered |-> TRUE, child |-> "none", pid |-> 0]

\* the scrape/merge child processes that run
ScrapeChildren(ops) == {op \in ops : op.kind = "scrape" /\ op.child = "running"}

\* the smallest pid no scrape in flight has
FreePid(ops) ==
  CHOOSE p \in 1..(MaxInflight + 1) :
    /\ \A op \in ops : op.pid # p
    /\ \A q \in 1..(p - 1) : \E op \in ops : op.pid = q

\* variant: the gate is open whatever the status
ScrapeRunningNever == FALSE

\* syncState.status === 'running'
ScrapeRunning == syncState.status = "running"

\* POST /api/sync answered by startSyncScript: the status is set to running
\* and the scrape is spawned, unless the status is running
BeginScrape ==
  \E child \in {"running", "failed"} :
    /\ ~ScrapeRunning
    /\ Cardinality(inflight) < MaxInflight
    /\ inflight' = inflight \cup
         {[NoOp EXCEPT !.kind = "scrape", !.child = child, !.pid = FreePid(inflight)]}
    /\ syncState' = [status |-> "running"]
    /\ UNCHANGED parsing
    /\ UNCHANGED <<store, ledger, now, run>>

\* POST /api/sync while the status is running: 409, nothing is spawned
RefuseScrape ==
  /\ ScrapeRunning
  /\ run' = [NoRun EXCEPT !.op = "scrape-refused", !.reply = "409"]
  /\ UNCHANGED <<store, ledger, now, inflight, syncState, parsing>>

\* variant: a run that did not succeed leaves the status as it is
closeStatusSuccessOnly(code) == IF code = 0 THEN [status |-> "success"] ELSE syncState

\* child.on('close'): the status after the process closed with this code
closeStatus(code) == [status |-> IF code = 0 THEN "success" ELSE "error"]

\* the scrape reads the document, merges and writes it, and its process
\* closes with code 0
EndScrape ==
  \E op \in inflight, transactions \in ServerBatches :
    /\ op.kind = "scrape"
    /\ op.child = "running"
    /\ WriteMerged(mergedPayload(store, transactions), transactions)
    /\ inflight' = inflight \ {op}
    /\ syncState' = closeStatus(0)
    /\ UNCHANGED parsing

\* the scrape fails before it writes: main().catch ends the process with
\* code 1 and the process closes
FailScrape ==
  \E op \in inflight :
    /\ op.kind = "scrape"
    /\ op.child = "running"
    /\ inflight' = inflight \ {op}
    /\ syncState' = closeStatus(1)
    /\ UNCHANGED parsing
    /\ run' = [NoRun EXCEPT !.op = "merge", !.exit = 1]
    /\ UNCHANGED <<store, ledger, now>>

\* child.on('error'): the process could not be spawned
SpawnError ==
  \E op \in inflight :
    /\ op.kind = "scrape"
    /\ op.child = "failed"
    /\ inflight' = inflight \ {op}
    /\ syncState' = [status |-> "error"]
    /\ UNCHANGED parsing
    /\ UNCHANGED <<store, ledger, now, run>>

\* POST /api/delete-transactions and /api/reset-ynab-status up to readFile
BeginEdit ==
  \E kind \in {"delete", "reset"}, ids \in Selections(store.transactions) \ {{}} :
    /\ Cardinality(inflight) < MaxInflight
    /\ inflight' = inflight \cup {[NoOp EXCEPT !.kind = kind, !.ids = ids, !.parsed = store]}
    /\ UNCHANGED <<store, ledger, now, run, syncState, parsing>>

\* the handler writes what it made of the document it read, if it changed it
EndEditWith(op, updated) ==
  /\ store' = IF updated = op.parsed THEN store ELSE updated
  /\ run' = [NoRun EXCEPT !.op = op.kind]
  /\ inflight' = inflight \ {op}
  /\ UNCHANGED <<ledger, now, syncState, parsing>>

EndDelete ==
  \E op \in inflight :
    op.kind = "delete" /\ EndEditWith(op, deleteTransactions(op.parsed, op.ids))

EndReset ==
  \E op \in inflight :
    op.kind = "reset" /\ EndEditWith(op, resetYnabStatus(op.parsed, op.ids))

\* a sync run that has a batch sends it and waits for the answer; a run
\* without one ends at once
SyncSent(started, items, answered) ==
  IF PreparedThrows(store.transactions, started.selection)
  THEN Exit(started, 2, "none", <<>>, EmptyData) /\ UNCHANGED <<store, ledger, inflight, syncState, parsing>>
  ELSE IF items = <<>>
  THEN Exit(started, 0, "none", <<>>, EmptyData) /\ UNCHANGED <<store, ledger, inflight, syncState, parsing>>
  ELSE /\ Len(ledger) + PendingItems(inflight) + Len(items) <= MaxLedger
       /\ inflight' = inflight \cup
            {[NoOp EXCEPT !.kind = "sync-ynab", !.parsed = store, !.started = started,
                          !.items = items, !.answered = answered]}
       /\ UNCHANGED <<store, ledger, run, syncState, parsing>>

\* POST /api/sync-ynab: the script is spawned, reads the document and POSTs
BeginSyncYnab ==
  \E selection \in Selections(store.transactions), elapsed \in ServerElapsed,
     answered \in BOOLEAN :
    /\ Cardinality(inflight) < MaxInflight
    /\ (now + elapsed) % RetryModulus <= MaxNow
    /\ now' = (now + elapsed) % RetryModulus
    /\ SyncSent(Selected(Started(selection, UNDEFINED), store.transactions),
                prepared(store.transactions, selection, now), answered)

\* the ledger's answer arrives: res.on("end") or req.on("error")
EndSyncYnab ==
  \E op \in inflight :
    /\ op.kind = "sync-ynab"
    /\ op.answered
    /\ SyncPost(op.parsed, {"ok", "non-2xx"}, op.started, op.items,
                LedgerAccept(ledger, op.items, KeysOf(op.parsed.transactions, op.items), 1),
                FALSE)
    /\ inflight' = inflight \ {op}
    /\ UNCHANGED <<now, syncState, parsing>>

NextServer ==
  BeginScrape \/ RefuseScrape \/ EndScrape \/ FailScrape \/ SpawnError
    \/ BeginEdit \/ EndDelete \/ EndReset \/ BeginSyncYnab \/ EndSyncYnab

SpecServer == Init /\ [][NextServer]_vars

\* the processes and handlers that have started take their next step
FairServer ==
  /\ WF_vars(EndScrape)
  /\ WF_vars(EndDelete)
  /\ WF_vars(EndReset)
  /\ WF_vars(EndSyncYnab)

SpecServerFair == SpecServer /\ FairServer

\* no child process runs for ever (FailScrape is enabled as long as one
\* runs, however it closes in the end), and a failed spawn is reported
FairChild ==
  /\ WF_vars(FailScrape)
  /\ WF_vars(SpawnError)

SpecChildFair == SpecServer /\ FairChild

(***************************************************************************)
(* The write of transactions.json in steps.  fs.writeFileSync(path, text)  *)
(* opens the file itself for writing, which empties it, writes the text    *)
(* and closes the file; the process can end at any point in between.  The   *)
(* text of a document is taken in pieces: its counters, one piece per       *)
(* record, and the closing piece.  While a write is in inflight, the file   *)
(* holds the first written pieces of the text of its document; otherwise    *)
(* it holds the text of store.                                              *)
(***************************************************************************)
PiecesOf(doc) == Len(doc.transactions) + 2

NoWrite ==
  [kind |-> "write", updated |-> EmptyStore, batch |-> <<>>, written |-> 0,
   running |-> TRUE]

\* what is in the file: a document and how many pieces of its text
FileOf(doc, ops) ==
  IF ops = {} THEN [doc |-> doc, pieces |-> PiecesOf(doc)]
  ELSE [doc |-> (CHOOSE op \in ops : TRUE).updated,
        pieces |-> (CHOOSE op \in ops : TRUE).written]

\* the text in the file is the whole text of a document
Whole(file) == file.pieces = PiecesOf(file.doc)

\* existing: JSON.parse of the file, null when it throws
\* (existing?.transactions ?? [])
existingOf(file) == IF Whole(file) THEN file.doc ELSE EmptyStore

\* the scrape reads the file, merges, and opens the file for writing
OpenWriteOf(merged, transactions) ==
  /\ Len(merged.transactions) <= MaxStore
  /\ inflight' = {[NoWrite EXCEPT !.updated = merged, !.batch = transactions]}
  /\ UNCHANGED <<store, ledger, now, run, syncState, parsing>>

OpenWrite ==
  \E transactions \in PlainBatches :
    /\ \A op \in inflight : ~op.running
    /\ OpenWriteOf(mergedPayload(existingOf(FileOf(store, inflight)), transactions),
                   transactions)

\* one more piece of the text reaches the file
WritePiece ==
  \E op \in inflight :
    /\ op.running
    /\ op.written < PiecesOf(op.updated)
    /\ inflight' = {[op EXCEPT !.written = @ + 1]}
    /\ UNCHANGED <<store, ledger, now, run, syncState, parsing>>

\* the text is written and the file closed
CloseWrite ==
  \E op \in inflight :
    /\ op.running
    /\ op.written = PiecesOf(op.updated)
    /\ store' = op.updated
    /\ run' = [NoRun EXCEPT !.op = "merge", !.batch = op.batch]
    /\ inflight' = {}
    /\ UNCHANGED <<ledger, now, syncState, parsing>>

\* the process ends before the file is closed
Interrupt ==
  \E op \in inflight :
    /\ op.running
    /\ inflight' = {[op EXCEPT !.running = FALSE]}
    /\ UNCHANGED <<store, ledger, now, run, syncState, parsing>>

NextWrite == OpenWrite \/ WritePiece \/ CloseWrite \/ Interrupt

SpecWrite == Init /\ [][NextWrite]_vars

(***************************************************************************)
(* The two date parsers on their own: parseGermanDate of the scrape        *)
(* (transactions-to-json.ts), which the current-month and the date-range   *)
(* filter call, and parseGermanDateToISO of the sync run (ynab-sync.ts).   *)
(* A date text "D. Month YYYY" is held in parsing by its day, the number   *)
(* of its month and its year, and put together where a parser reads it.    *)
(***************************************************************************)
\* the twelve German month names as the pages spell them
MonthNames ==
  <<"Januar", "Februar", "März", "April", "Mai", "Juni", "Juli", "August", "September",
    "Oktober", "November", "Dezember">>

\* monthMap[monthName], -1 for a name it does not hold (undefined)
monthMap(monthName) ==
  CASE monthName = "Januar" -> 0 [] monthName = "Februar" -> 1 [] monthName = "März" -> 2
    [] monthName = "April" -> 3 [] monthName = "Mai" -> 4 [] monthName = "Juni" -> 5
    [] monthName = "Juli" -> 6 [] monthName = "August" -> 7 [] monthName = "September" -> 8
    [] monthName = "Oktober" -> 9 [] monthName = "November" -> 10
    [] monthName = "Dezember" -> 11
    [] OTHER -> -1

\* every character of s from position from to position to is of the class
AllOf(s, from, to, cls) == \A i \in from..to : CharAt(s, i) \in cls

\* \s*(\d{4}) after position e: white space, then four digits
YearFollows(s, ws2End) == ws2End + 4 <= Len(s) /\ AllOf(s, ws2End + 1, ws2End + 4, Digits)

\* (\w+)\s*(\d{4}) after the white space that ends at ws1End, the word
\* ending at e.  \w is [A-Za-z0-9_]: the pattern has no u flag
WordThenYear(s, ws1End, e) ==
  /\ e >= ws1End + 1
  /\ e <= Len(s)
  /\ AllOf(s, ws1End + 1, e, WordChars)
  /\ YearFollows(s, RunEnd(s, e + 1, Whitespace))

\* /(\d{1,2})\.\s*(\w+)\s*(\d{4})/ matches at position p with a day of dl
\* digits and a word that ends at e
MatchesAt(s, p, dl, e) ==
  /\ p + dl <= Len(s)
  /\ AllOf(s, p, p + dl - 1, Digits)
  /\ CharAt(s, p + dl) = "."
  /\ WordThenYear(s, RunEnd(s, p + dl + 1, Whitespace), e)

\* the match the pattern finds among several: the leftmost, with the
\* longer day, with the longer word
Preferred(c, d) ==
  \/ c[1] < d[1]
  \/ c[1] = d[1] /\ c[2] > d[2]
  \/ c[1] = d[1] /\ c[2] = d[2] /\ c[3] >= d[3]

\* the three groups of a match
GroupsOf(s, p, dl, e, ws2End) ==
  <<SubSeq(s, p, p + dl - 1),
    SubSeq(s, RunEnd(s, p + dl + 1, Whitespace) + 1, e),
    SubSeq(s, ws2End + 1, ws2End + 4)>>

FirstMatch(s, found) ==
  IF found = {} THEN <<>>
  ELSE LET c == CHOOSE c \in found : \A d \in found : Preferred(c, d)
       IN GroupsOf(s, c[1], c[2], c[3], RunEnd(s, c[3] + 1, Whitespace))

\* dateStr.match(/(\d{1,2})\.\s*(\w+)\s*(\d{4})/): the groups, <<>> for null
DateGroups(s) ==
  FirstMatch(s, {c \in (1..Len(s)) \X {1, 2} \X (1..Len(s)) :
                   MatchesAt(s, c[1], c[2], c[3])})

\* new Date(year, month, day) by its parts, None when monthMap has no such
\* month
DateOfGroups(match) ==
  IF match = <<>> THEN None
  ELSE IF monthMap(match[2]) = -1 THEN None
  ELSE Some([year |-> DigitsToInt(match[3]), month |-> monthMap(match[2]),
             day |-> DigitsToInt(match[1])])

parseGermanDate(dateStr) ==
  IF ~Truthy(dateStr) THEN None ELSE DateOfGroups(DateGroups(dateStr))

\* date.getFullYear() === now.getFullYear() && date.getMonth() === now.getMonth()
SameMonth(date, today) ==
  date # None /\ date[1].year = today.year /\ date[1].month = today.month

\* isCurrentMonth(dateStr), with new Date() as today
isCurrentMonth(dateStr, today) == SameMonth(parseGermanDate(dateStr), today)

\* the date texts: days of one and of two digits, each month, two years
Days == {"1", "05", "17"}
Years == {"2024", "2025"}

DateText(p) == p.day \o ". " \o MonthNames[p.month] \o " " \o p.year

\* the month a date text is of: the scrape runs in that month
MonthOfText(p) == [year |-> DigitsToInt(p.year), month |-> p.month - 1]

InitDates ==
  /\ store = EmptyStore
  /\ ledger = <<>>
  /\ now = 0
  /\ run = NoRun
  /\ inflight = {}
  /\ syncState = IdleState
  /\ parsing \in {[NoParsing EXCEPT !.day = d, !.month = m, !.year = y] :
                     d \in Days, m \in 1..12, y \in Years}

Parsed(what, result) ==
  /\ what \notin parsing.done
  /\ parsing' = [result EXCEPT !.done = @ \cup {what}]
  /\ UNCHANGED <<store, ledger, now, run, inflight, syncState>>

\* the sync run parses the date text
ParseToISO ==
  Parsed("iso", [parsing EXCEPT !.iso = parseGermanDateToISO(DateText(parsing))])

\* the scrape parses the date text
ParseDate ==
  Parsed("date", [parsing EXCEPT !.date = parseGermanDate(DateText(parsing))])

\* applySyncFilters in mode current-month, in the month of the date text
FilterCurrentMonth ==
  Parsed("kept", [parsing EXCEPT !.kept = isCurrentMonth(DateText(parsing),
                                                         MonthOfText(parsing))])

NextDates == ParseToISO \/ ParseDate \/ FilterCurrentMonth

SpecDates == InitDates /\ [][NextDates]_vars

(***************************************************************************)
(* Properties.                                                             *)
(***************************************************************************)
ledgerTransactionId(t) == t.ynabSync.ynabTransactionId

\* the positions of the records the last sync run submitted
SubmittedPositions(r) == {r.items[n].position : n \in 1..Len(r.items)}

\* the run sent its batch to the ledger
Posted(r) == r.op = "sync" /\ r.reply # "none"

\* C1: over any sequence of sync runs and ledger behaviour the ledger holds
\* at most one created entry per persisted record (merge identity).
NoDoubleBooking ==
  \A e, f \in 1..Len(ledger) : ledger[e].key = ledger[f].key => e = f

DuplicateFlagged(t) ==
  t.ynabSync.duplicateImportId /\ ~Truthy(ledgerTransactionId(t))

\* C3: a record whose import id the ledger reported as a duplicate (and did
\* not create) is in the batch of no later sync run.
DuplicateNeverResubmitted ==
  [][Posted(run') =>
       \A k \in SubmittedPositions(run') :
         ~DuplicateFlagged(store.transactions[k])]_vars

\* a previous attempt left the record without a ledger transaction id
AttemptedWithoutId(t) == HasYnabSync(t) /\ ~Truthy(ledgerTransactionId(t))

\* C4: a record a previous attempt left without a ledger transaction id is
\* resubmitted with an import id that differs from the stored one and is at
\* most 36 characters long.
RetryIdFresh ==
  [][Posted(run') =>
       \A n \in 1..Len(run'.items) :
         LET t == store.transactions[run'.items[n].position]
         IN AttemptedWithoutId(t) =>
              /\ run'.items[n].importId # t.ynabSync.importId
              /\ Len(run'.items[n].importId) <= ImportIdLimit]_vars

\* the import id of a first attempt, by amount and date
FirstAttemptId(amountMilli, isoDate) == "AMZ:" \o ToString(amountMilli) \o ":" \o isoDate

\* C5: the import id of a first attempt is a function of the amount in
\* milliunits and the ISO date only.
FirstAttemptIdByAmountAndDate ==
  [][Posted(run') =>
       \A n \in 1..Len(run'.items) :
         ~HasYnabSync(store.transactions[run'.items[n].position]) =>
           run'.items[n].importId =
             FirstAttemptId(run'.items[n].amountMilli, run'.items[n].isoDate)]_vars

\* C5 witness: one batch held two different orders of the same amount and
\* date, both on their first attempt, under one import id
TwoOrdersOneImportId ==
  /\ Posted(run)
  /\ \E n, m \in 1..Len(run.items) :
       /\ store.transactions[run.items[n].position].orderId
            # store.transactions[run.items[m].position].orderId
       /\ run.items[n].importId = run.items[m].importId
       /\ run.items[n].importId =
            FirstAttemptId(run.items[n].amountMilli, run.items[n].isoDate)

\* the sync state of a record
SyncOutcome(t) ==
  IF Truthy(ledgerTransactionId(t)) THEN "confirmed"
  ELSE IF t.ynabSync.duplicateImportId THEN "duplicate"
  ELSE "unconfirmed"

\* the created entries of an answer that echo an import id
EchoesOf(data, importId) ==
  {n \in 1..Len(data.transactions) :
     /\ Truthy(data.transactions[n].id)
     /\ data.transactions[n].import_id = importId}

\* what the answer says of an import id: created before duplicate before
\* unconfirmed
AnsweredOutcome(data, importId) ==
  IF EchoesOf(data, importId) # {} THEN "confirmed"
  ELSE IF importId \in data.duplicate_import_ids THEN "duplicate"
  ELSE "unconfirmed"

\* C6: after a successful non-dry sync run every submitted record is synced
\* and confirmed, duplicate or unconfirmed as the answer says, created
\* taking precedence over duplicate and duplicate over unconfirmed.
OutcomeByPrecedence ==
  (Posted(run) /\ run.exit = 0) =>
    \A n \in 1..Len(run.items) :
      LET t == store.transactions[run.items[n].position]
      IN /\ t.ynabSynced
         /\ t.ynabSync.importId = run.items[n].importId
         /\ SyncOutcome(t) = AnsweredOutcome(run.data, run.items[n].importId)
         /\ (SyncOutcome(t) = "confirmed" =>
               \E c \in EchoesOf(run.data, run.items[n].importId) :
                 ledgerTransactionId(t) = run.data.transactions[c].id)

\* C6 witness: an import id was answered both as created and as duplicate,
\* and its record is confirmed
CreatedBeatsDuplicate ==
  /\ Posted(run) /\ run.exit = 0
  /\ \E n \in 1..Len(run.items) :
       /\ EchoesOf(run.data, run.items[n].importId) # {}
       /\ run.items[n].importId \in run.data.duplicate_import_ids
       /\ SyncOutcome(store.transactions[run.items[n].position]) = "confirmed"

\* C7: merging the batch that was just merged once more changes nothing:
\* same records, same order, same enrichment, same sync state.
MergeIdempotent ==
  run.op = "merge" => mergedPayload(store, run.batch) = store

\* C8: no two records of the store share a merge identity.
UniqueMergeIdentity ==
  \A i, j \in 1..Len(store.transactions) :
    keyOf(store.transactions[i]) = keyOf(store.transactions[j]) => i = j

\* C8 witness: a merge took a page that shows one link twice into a store
\* that holds other records too
SameLinkTwiceMerged ==
  /\ run.op = "merge"
  /\ Len(run.batch) = 2
  /\ keyOf(run.batch[1]) = keyOf(run.batch[2])
  /\ Len(store.transactions) > 1

\* the positions of the existing records a merge keeps, in order
KeptPositions(existing, batch) ==
  LET Kept(k) == KeepExisting(existing[k], newMultiOrderIds(batch))
  IN Filter([k \in 1..Len(existing) |-> k], Kept)

\* no enrichment field that is non-null in before is null in after
EnrichmentCarried(before, after) ==
  /\ ~Nullish(before.orderDescription) => ~Nullish(after.orderDescription)
  /\ IsSome(before.orderItems) => IsSome(after.orderItems)
  /\ IsSome(before.orderSummary) => IsSome(after.orderSummary)
  /\ ~Nullish(before.aiSummary) => ~Nullish(after.aiSummary)

HttpFailure(reply) == reply \in {"non-2xx", "request-error", "request-error-applied"}

\* C10: when the request to the ledger fails, with a status outside 2xx or a
\* request error, the store is left exactly as it was.
HttpFailureLeavesStore ==
  [][(run'.op = "sync" /\ HttpFailure(run'.reply)) => store' = store]_vars

\* C10 witness: a run ended with exit code 2 on a failed request that the
\* ledger had applied, and the submitted records are still unsynced
FailedAfterLedgerApplied ==
  /\ run.op = "sync" /\ run.reply = "request-error-applied" /\ run.exit = 2
  /\ Len(ledger) > 0
  /\ \A k \in SubmittedPositions(run) : ~store.transactions[k].ynabSynced

\* C11: with dry-run enabled a sync run sends no request to the ledger and
\* leaves the persisted store as it was, and a run that gets as far as the
\* payloads prints exactly the payloads a run without dry-run would send.
DryRunOnlyPreviews ==
  [][(run'.op = "sync" /\ run'.dryRun) =>
       /\ run'.reply = "none" /\ run'.items = <<>>
       /\ store' = store /\ ledger' = ledger
       /\ (run'.exit = 0 =>
             run'.preview = prepared(store.transactions, run'.selection, now))]_vars

\* a dry run printed the payload of a record that is still unsynced
DryRunPreviewed ==
  /\ run.op = "sync" /\ run.dryRun /\ run.exit = 0
  /\ run.preview # <<>>
  /\ \A n \in 1..Len(run.preview) :
       ~store.transactions[run.preview[n].position].ynabSynced

\* the record is a loyalty-point line
LoyaltyInstrument(t) ==
  ~Nullish(t.paymentInstrument) /\ Includes(t.paymentInstrument, "Santander-Punkte")

\* C12: no sync run, whatever order ids it is restricted to, has a
\* loyalty-point record in the batch it submits, be there a primary record
\* of the same order or not.
LoyaltyNeverSubmitted ==
  [][Posted(run') =>
       \A k \in SubmittedPositions(run') :
         ~LoyaltyInstrument(store.transactions[k])]_vars

\* a batch was submitted while an unsynced loyalty-point line of an order
\* without primary record was in the store and not excluded by the order ids
LoneLoyaltyLeftOut ==
  /\ Posted(run) /\ run.exit = 0
  /\ \E k \in 1..Len(store.transactions) :
       /\ LoyaltyInstrument(store.transactions[k])
       /\ ~store.transactions[k].ynabSynced
       /\ run.selection = {}
       /\ \A h \in 1..Len(store.transactions) :
            h # k => store.transactions[h].orderId # store.transactions[k].orderId

\* the positions of the loyalty-point lines and of the other records of an
\* order
CompanionsOf(transactions, orderId) ==
  {k \in 1..Len(transactions) :
     transactions[k].orderId = orderId /\ LoyaltyInstrument(transactions[k])}
PrimariesOf(transactions, orderId) ==
  {k \in 1..Len(transactions) :
     transactions[k].orderId = orderId /\ ~LoyaltyInstrument(transactions[k])}

\* the payloads of a batch that belong to an order
PayloadsOf(transactions, items, orderId) ==
  {n \in 1..Len(items) : transactions[items[n].position].orderId = orderId}

\* C13: when an order has one primary record and one loyalty companion and
\* a run that is not a dry run syncs the primary, the batch holds exactly
\* one payload of that order and afterwards the companion carries the
\* ledger transaction id of the primary.
CompanionSharesLedgerId ==
  (Posted(run) /\ run.exit = 0) =>
    \A n \in 1..Len(run.items) :
      LET orderId == store.transactions[run.items[n].position].orderId
      IN (/\ Cardinality(PrimariesOf(store.transactions, orderId)) = 1
          /\ Cardinality(CompanionsOf(store.transactions, orderId)) = 1) =>
           /\ Cardinality(PayloadsOf(store.transactions, run.items, orderId)) = 1
           /\ \A c \in CompanionsOf(store.transactions, orderId) :
                /\ store.transactions[c].ynabSynced
                /\ ledgerTransactionId(store.transactions[c])
                     = ledgerTransactionId(store.transactions[run.items[n].position])

\* the ledger created the entry of a primary record that has a companion,
\* and both carry its id
CompanionLinked ==
  /\ Posted(run) /\ run.exit = 0
  /\ \E n \in 1..Len(run.items) :
       LET orderId == store.transactions[run.items[n].position].orderId
       IN /\ Cardinality(PrimariesOf(store.transactions, orderId)) = 1
          /\ \E c \in CompanionsOf(store.transactions, orderId) :
               /\ Truthy(ledgerTransactionId(store.transactions[c]))
               /\ ledgerTransactionId(store.transactions[c])
                    = ledgerTransactionId(store.transactions[run.items[n].position])

\* the record is one of a payment for several orders
MultiOrder(t) == t.multiOrderTransaction

\* two records of the same payment for several orders
SameBundle(t, u) ==
  MultiOrder(t) /\ MultiOrder(u) /\ t.date = u.date /\ t.totalAmount = u.totalAmount

\* C14: no multi-order record with orderIndex other than 0 is in a
\* submitted batch, so the payloads of one bundle in a batch are at most
\* one, that of the record with orderIndex 0.
OnlyFirstOfBundleSubmitted ==
  [][Posted(run') =>
       /\ \A k \in SubmittedPositions(run') :
            MultiOrder(store.transactions[k]) => store.transactions[k].orderIndex = 0
       /\ \A k, h \in SubmittedPositions(run') :
            SameBundle(store.transactions[k], store.transactions[h]) => k = h]_vars

\* the batch held the first record of a bundle whose second record was
\* unsynced and in the store
BundleSubmittedOnce ==
  /\ Posted(run) /\ run.exit = 0
  /\ \E n \in 1..Len(run.items), h \in 1..Len(store.transactions) :
       /\ SameBundle(store.transactions[run.items[n].position], store.transactions[h])
       /\ store.transactions[run.items[n].position].orderIndex = 0
       /\ store.transactions[h].orderIndex = 1
       /\ ~store.transactions[h].ynabSynced
       /\ run.selection = {}

\* C15: the amount of every payload is positive when the amount text holds
\* "+" or the record is a refund, and negative otherwise.
AmountSignByPlusOrRefund ==
  [][Posted(run') =>
       \A n \in 1..Len(run'.items) :
         LET t == store.transactions[run'.items[n].position]
         IN IF IncludesChar(AmountTextOf(t), "+") \/ t.isRefund
            THEN run'.items[n].amountMilli > 0
            ELSE run'.items[n].amountMilli < 0]_vars

\* C16: a sync run that finds an eligible record without an amount text does
\* not fail: it leaves that record out and submits the other eligible ones.
EligibleWithAmount(transactions, selection) ==
  {k \in 1..Len(transactions) :
     Disposition(transactions[k], selection) = "candidate" /\ ~AmountThrows(transactions[k])}

MissingAmountOnlyFiltered ==
  [][run'.op = "sync" /\ PreparedThrows(store.transactions, run'.selection)
       => /\ run'.exit = 0
          /\ ~run'.dryRun
               => SubmittedPositions(run') = EligibleWithAmount(store.transactions, run'.selection)]_vars

\* the positions of the records whose date text yields no ISO date
Dateless(transactions) ==
  {k \in 1..Len(transactions) : IsoDateOf(transactions[k]) = NULL}

\* the positions of the records of an order id
RecordsOf(transactions, orderId) ==
  {k \in 1..Len(transactions) : TrimmedOrderId(transactions[k]) = orderId}

\* C17: a sync run submits no record whose date yields no ISO date, counts
\* each of them in the invalid-date bucket, keeps at most 5 sample ids there,
\* and reports invalid-date for a selected order id that only such records
\* carry.
InvalidDateFiltered ==
  [][run'.op = "sync"
       => /\ SubmittedPositions(run') \cap Dateless(store.transactions) = {}
          /\ run'.summary.invalidDate.count = Cardinality(Dateless(store.transactions))
          /\ Len(run'.summary.invalidDate.examples) <= SUMMARY_SAMPLE_LIMIT
          /\ \A o \in run'.selection :
               /\ RecordsOf(store.transactions, o) # {}
               /\ RecordsOf(store.transactions, o) \subseteq Dateless(store.transactions)
               => run'.summary.selection[o] = "invalid-date"]_vars

\* a run over more dateless records than the bucket keeps samples, with a
\* selected order id only dateless records carry
InvalidDateReported ==
  /\ run.op = "sync"
  /\ run.summary.invalidDate.count > SUMMARY_SAMPLE_LIMIT
  /\ Len(run.summary.invalidDate.examples) = SUMMARY_SAMPLE_LIMIT
  /\ \E o \in run.selection :
       /\ RecordsOf(store.transactions, o) # {}
       /\ RecordsOf(store.transactions, o) \subseteq Dateless(store.transactions)
       /\ run.summary.selection[o] = "invalid-date"

\* C18: when a sync run with selected order ids ends, a selected order id has
\* the status not-found exactly when no record of the store carries it.
NotFoundIffAbsent ==
  [][run'.op = "sync"
       => \A o \in run'.selection :
            run'.summary.selection[o] = "not-found"
              <=> RecordsOf(store'.transactions, o) = {}]_vars

\* C19: the server never has two operations on the document in flight, and
\* an operation that ends writes over the document it read.
SingleWriter ==
  [][/\ Cardinality({op \in inflight' : op.child # "failed"}) <= 1
     /\ \A op \in inflight \ inflight' :
          op.kind # "scrape" /\ store' # store => op.parsed = store]_vars

\* C20: every sync run that waits for the ledger's answer ends.
SyncInFlight == \E op \in inflight : op.kind = "sync-ynab"

SyncRunTerminates == SyncInFlight ~> ~SyncInFlight

\* the calendar month of an ISO date: its first seven characters
MonthOf(isoDate) == SubSeq(isoDate, 1, 7)

\* C21: the records a sync run submits are all dated in one calendar month,
\* the current one.
OnlyCurrentMonthSubmitted ==
  [][Posted(run') =>
       \A n, m \in 1..Len(run'.items) :
         MonthOf(run'.items[n].isoDate) = MonthOf(run'.items[m].isoDate)]_vars

\* the links with several order numbers that the pages show
BundleLinks ==
  UNION {{page[i] : i \in {j \in DOMAIN page : Len(page[j].orderIdMatches) > 1}} :
           page \in Pages}

KeysIn(transactions) == {keyOf(transactions[k]) : k \in 1..Len(transactions)}

\* C23: every record the store holds before a merge or a sync run is in the
\* store after it.
NoAutomaticRemoval ==
  [][run'.op \in {"merge", "sync"}
       => KeysIn(store.transactions) \subseteq KeysIn(store'.transactions)]_vars

\* the record has the instrument the merge excludes
ExcludedInstrument(t) ==
  t.paymentInstrument = "Amazon Punkte Punkte" \/ t.paymentInstrument = "Santander-Punkte"

\* another record of the store is of the same order
HasSibling(transactions, k) ==
  \E h \in 1..Len(transactions) :
    h # k /\ Truthy(transactions[k].orderId)
          /\ transactions[h].orderId = transactions[k].orderId

\* C24: a merge drops the existing record k exactly when it has the loyalty
\* instrument and no sibling, or its orderId ends with "-", or it is a
\* single-order record whose orderId a multi-order record of the fresh batch
\* carries; every other record survives.
DroppedByMerge(transactions, k, batch) ==
  \/ ExcludedInstrument(transactions[k]) /\ ~HasSibling(transactions, k)
  \/ Truthy(transactions[k].orderId) /\ EndsWith(transactions[k].orderId, "-")
  \/ /\ Truthy(transactions[k].orderId)
     /\ ~transactions[k].multiOrderTransaction
     /\ transactions[k].orderId \in newMultiOrderIds(batch)

\* the existing records a merge of the batch keeps (existingArr)
KeptByMerge(transactions, batch) == KeysIn(existingArrOf(transactions, batch))

MergeDropsExactly ==
  [][run'.op = "merge" =>
       \A k \in 1..Len(store.transactions) :
         /\ keyOf(store.transactions[k]) \notin KeptByMerge(store.transactions, run'.batch)
              <=> DroppedByMerge(store.transactions, k, run'.batch)
         /\ keyOf(store.transactions[k]) \in KeptByMerge(store.transactions, run'.batch)
              => keyOf(store.transactions[k]) \in KeysIn(store'.transactions)]_vars

\* the merge identities of the records of a sequence, in its order
KeySeq(transactions) == [k \in 1..Len(transactions) |-> keyOf(transactions[k])]

\* the identities a merge of the batch adds: those of the batch that no kept
\* record has, each once, in the order of the batch
AddedKeys(kept, batch) ==
  LET IsNew(key) == key \notin KeysIn(kept)
  IN Dedupe(SelectSeq(KeySeq(batch), IsNew))

\* C25: the store a merge writes lists the records the merge added first,
\* in the order of the fresh batch, and after them the surviving records
\* of the store in the order they had.
NewFirstThenExisting ==
  [][run'.op = "merge" =>
       KeySeq(store'.transactions)
         = AddedKeys(existingArrOf(store.transactions, run'.batch), run'.batch)
             \o KeySeq(existingArrOf(store.transactions, run'.batch))]_vars

\* a merge of three records added the second and the third of the batch in
\* front of the first, which the store held
TwoAddedBeforeOneKept ==
  /\ run.op = "merge"
  /\ Len(run.batch) = 3
  /\ KeySeq(store.transactions)
       = <<keyOf(run.batch[2]), keyOf(run.batch[3]), keyOf(run.batch[1])>>

\* C26: in every store an operation wrote, count is the number of records
\* and withOrderId is the number of records whose orderId is not null.
CountersMatchRecords ==
  /\ store.count = Len(store.transactions)
  /\ store.withOrderId
       = Cardinality({k \in 1..Len(store.transactions) : store.transactions[k].orderId # NULL})

\* the records of the store that the order numbers of a link became
SiblingsOf(transactions, link) ==
  LET OfLink(t) ==
        /\ MultiOrder(t)
        /\ t.date = link.date
        /\ t.totalAmount = link.amount
        /\ \E j \in 1..Len(link.orderIdMatches) :
             /\ t.orderIndex = j - 1
             /\ t.orderId = StripTrailingDashes(link.orderIdMatches[j])
  IN SelectSeq(transactions, OfLink)

\* C27: the memo of a submitted record with orderIndex 0 whose bundle has
\* more than one record in the store is made of the records of that bundle
\* alone, one entry per record by increasing orderIndex, whatever summary
\* text the record has; no record of another bundle is in it.
BundleMemoOfOwnSiblings ==
  [][Posted(run') =>
       \A n \in 1..Len(run'.items) : \A link \in {LinkM, LinkM2} :
         (/\ MultiOrder(store.transactions[run'.items[n].position])
          /\ store.transactions[run'.items[n].position].orderIndex = 0
          /\ store.transactions[run'.items[n].position].orderId
               = StripTrailingDashes(link.orderIdMatches[1])
          /\ Len(SiblingsOf(store.transactions, link)) > 1)
           => run'.items[n].memo
                = "Multi-Order: "
                    \o OrderSummaries(SortedByOrderIndex(SiblingsOf(store.transactions, link)))]_vars

\* the loyalty-point lines of the order of record k
LoyaltyLinesOf(transactions, k) ==
  {s \in 1..Len(transactions) :
     /\ Truthy(TrimmedOrderId(transactions[k]))
     /\ TrimmedOrderId(transactions[s]) = TrimmedOrderId(transactions[k])
     /\ isSantanderPunkte(transactions[s])}

\* the annotation of a loyalty-point line
AnnotationOf(s) ==
  " [Santander-Punkte: " \o (IF Truthy(s.amount) THEN s.amount ELSE "0") \o "]"

\* C28: the memo of a submitted record whose order has a loyalty-point
\* line ends with the whole annotation of such a line and is at most 200
\* characters long, however long the memo was before the annotation.
CompanionAnnotationWhole ==
  [][Posted(run') =>
       \A n \in 1..Len(run'.items) :
         LoyaltyLinesOf(store.transactions, run'.items[n].position) # {} =>
           /\ Len(run'.items[n].memo) <= 200
           /\ \E s \in LoyaltyLinesOf(store.transactions, run'.items[n].position) :
                EndsWith(run'.items[n].memo, AnnotationOf(store.transactions[s]))]_vars

\* a run submitted a record whose summary is longer than 200 characters
\* and whose order has a loyalty-point line; the memo is 200 long
LongMemoAnnotated ==
  /\ Posted(run)
  /\ \E n \in 1..Len(run.items) :
       /\ Len(store.transactions[run.items[n].position].aiSummary) > 200
       /\ LoyaltyLinesOf(store.transactions, run.items[n].position) # {}
       /\ Len(run.items[n].memo) = 200

\* neither the description nor a title nor the title of an item of the
\* record is login text
NoLoginText(t) ==
  /\ ~isLoginText(t.orderDescription)
  /\ IsSome(t.orderTitles) =>
       \A i \in 1..Len(Get(t.orderTitles)) : ~isLoginText(Get(t.orderTitles)[i])
  /\ IsSome(t.orderItems) =>
       \A i \in 1..Len(Get(t.orderItems)) : ~isLoginText(Get(t.orderItems)[i][1])

\* C29: in the store a merge wrote no record has a description, a title or
\* an item title that is login text, whether the record was in the file,
\* came with the batch, or is a record of the file with fields of the batch.
NoLoginTextAfterMerge ==
  run.op = "merge" => \A k \in 1..Len(store.transactions) : NoLoginText(store.transactions[k])

\* a merge wrote the record that the file held with login text in its
\* description, titles and items: the other title is all that is left
StainedRecordScrubbed ==
  /\ run.op = "merge"
  /\ \E k \in 1..Len(store.transactions) :
       /\ keyOf(store.transactions[k]) = keyOf(BlockTransaction(LinkB, 1))
       /\ store.transactions[k].orderTitles = Some(<<TitleCable>>)
       /\ store.transactions[k].orderDescription = NULL
       /\ store.transactions[k].orderItems = None

\* C30: whenever the file is read, also after a run was interrupted, it
\* holds the whole text of a document, the one before the write or the one
\* written; it never holds a part of a text.
FileAlwaysWhole == Whole(FileOf(store, inflight))

\* a card record and the loyalty-point line of its order
PrimaryAndCompanion(t, u) ==
  /\ Truthy(t.orderId)
  /\ t.orderId = u.orderId
  /\ LoyaltyInstrument(t) # LoyaltyInstrument(u)

\* C31: two records of the store that are not a card record and the
\* loyalty-point line of its order never carry the same ledger transaction
\* id: each confirmed record has a ledger entry of its own.
OwnLedgerEntryEach ==
  \A k, h \in 1..Len(store.transactions) :
    (/\ k # h
     /\ Truthy(ledgerTransactionId(store.transactions[k]))
     /\ ledgerTransactionId(store.transactions[k]) = ledgerTransactionId(store.transactions[h]))
      => PrimaryAndCompanion(store.transactions[k], store.transactions[h])

\* C32: a retry of a record never submits an import id that an earlier
\* attempt of the same record submitted to the ledger, whatever the start
\* times of the runs and the position of the record.
RetryIdNeverReused ==
  [][Posted(run') =>
       \A n \in 1..Len(run'.items) :
         AttemptedWithoutId(store.transactions[run'.items[n].position]) =>
           \A e \in 1..Len(ledger) :
             ledger[e].key = keyOf(store.transactions[run'.items[n].position])
               => ledger[e].import_id # run'.items[n].importId]_vars

\* the record without its sync fields
WithoutSyncFields(t) == [t EXCEPT !.ynabSynced = FALSE, !.ynabSync = NoYnabSync]

\* the positions a run may write to: those of the records it submitted and
\* of the loyalty-point lines of their orders
WritablePositions(transactions, r) ==
  SubmittedPositions(r)
    \cup UNION {CompanionsOf(transactions, transactions[k].orderId) :
                  k \in {h \in SubmittedPositions(r) : Truthy(transactions[h].orderId)}}

\* C33: a sync run that is not a dry run changes nothing in the store but
\* ynabSynced and ynabSync of the records it submitted and of the
\* loyalty-point lines of their orders: the other records, the other
\* fields, the counters, the order and the number of records stay.
SyncWritesSyncFieldsOnly ==
  [][(run'.op = "sync" /\ ~run'.dryRun) =>
       /\ Len(store'.transactions) = Len(store.transactions)
       /\ store'.count = store.count
       /\ store'.withOrderId = store.withOrderId
       /\ \A k \in 1..Len(store.transactions) :
            /\ WithoutSyncFields(store'.transactions[k])
                 = WithoutSyncFields(store.transactions[k])
            /\ k \notin WritablePositions(store.transactions, run')
                 => store'.transactions[k] = store.transactions[k]]_vars

\* the run wrote its results to the store
WroteBack(r) == Posted(r) /\ r.exit = 0

\* C34: after a run that wrote back, the import id in the sync state of
\* every record it submitted is the import id of the payload sent for that
\* record, which is the one the ledger holds when it applied the batch, for
\* first attempts and for retries.
StoredImportIdIsSent ==
  [][WroteBack(run') =>
       \A n \in 1..Len(run'.items) :
         /\ store'.transactions[run'.items[n].position].ynabSync.importId
              = run'.items[n].importId
         /\ LedgerHolds(ledger',
                        store'.transactions[run'.items[n].position].ynabSync.importId)]_vars

\* a retry wrote back: the record was left without a ledger id by an
\* earlier attempt and now holds the import id with the retry suffix it sent
RetryIdStored ==
  /\ WroteBack(run)
  /\ \E n \in 1..Len(run.items) :
       /\ Includes(run.items[n].importId, ":r")
       /\ store.transactions[run.items[n].position].ynabSync.importId = run.items[n].importId

\* the items of a run whose record carries the order id
ItemsOfOrder(transactions, r, orderId) ==
  {n \in 1..Len(r.items) : TrimmedOrderId(transactions[r.items[n].position]) = orderId}

\* the record was confirmed by the answer: a ledger id or a duplicate flag
ConfirmedRecord(t) == Truthy(t.ynabSync.ynabTransactionId) \/ t.ynabSync.duplicateImportId

\* C35: after a run that wrote back, a caller-supplied order id with
\* submitted records is reported synced only if every submitted record of
\* that order id was confirmed or flagged duplicate, and queued if any of
\* them is unconfirmed, also when several records share the order id.
SyncedOnlyIfAllConfirmed ==
  [][(WroteBack(run') /\ ~run'.dryRun) =>
       \A o \in DOMAIN run'.summary.selection :
         ItemsOfOrder(store'.transactions, run', o) # {} =>
           IF \A n \in ItemsOfOrder(store'.transactions, run', o) :
                ConfirmedRecord(store'.transactions[run'.items[n].position])
           THEN run'.summary.selection[o] = "synced"
           ELSE run'.summary.selection[o] = "queued"]_vars

\* C36: at most one scrape/merge child process started through the server
\* runs at any time, and one runs only while the run status is running,
\* when a POST /api/sync is answered 409 and spawns nothing.
OneScrapeChild ==
  /\ Cardinality(ScrapeChildren(inflight)) <= 1
  /\ ScrapeChildren(inflight) # {} => syncState.status = "running"

\* a POST /api/sync was answered 409 while a child process runs, next to
\* another operation of the server in flight
RefusedWhileChildRuns ==
  /\ run.op = "scrape-refused"
  /\ Cardinality(ScrapeChildren(inflight)) = 1
  /\ Cardinality(inflight) = 2

\* C37: whenever a scrape/merge child process ends, by a close event with
\* any exit code or by a spawn error, the run status becomes success or
\* error; and a status of running always comes to an end, so that a later
\* POST /api/sync is accepted.
ChildEndReleasesGate ==
  /\ [][\A op \in inflight \ inflight' :
          op.kind = "scrape" => syncState'.status \in {"success", "error"}]_vars
  /\ (syncState.status = "running" ~> syncState.status # "running")

\* a child process closed with code 1 and a later POST /api/sync was
\* accepted: its child process runs
AcceptedAfterFailure ==
  /\ run.op = "merge" /\ run.exit = 1
  /\ syncState.status = "running"
  /\ ScrapeChildren(inflight) # {}

\* C38: a date text "D. Month YYYY" of any of the twelve German month names
\* that parseGermanDateToISO turns into an ISO date is parsed to a date by
\* parseGermanDate, and the current-month filter keeps a record of the
\* current month whatever its month name.
DateParsersAgree ==
  ("iso" \in parsing.done /\ parsing.iso # NULL) =>
    /\ "date" \in parsing.done => parsing.date # None
    /\ "kept" \in parsing.done => parsing.kept

====
